---------------------------- MODULE Spec2Model ----------------------------
(***************************************************************************)
(* A state-machine model of the NES emulator: the system bus, the NROM     *)
(* cartridge, the 6502 CPU and the PPU, transcribed from the TypeScript    *)
(* sources.  JavaScript numbers are modelled as integers; typed-array      *)
(* cells wrap modulo their width; bitwise operators act on the 32-bit      *)
(* two's-complement pattern of their operands, as in JavaScript.           *)
(***************************************************************************)
EXTENDS Integers, Sequences, FiniteSets, TLC

VARIABLES
    bus,      \* Bus: cpuRAM, systemClock, controller, controllerState
    cpu,      \* CPU: registers and bookkeeping fields
    ppu,      \* PPU: registers, memories, scanline/cycle counters, flags
    rom,      \* the connected cartridge
    threw,    \* whether the last call ended in an uncaught TypeError
    call,     \* the last call made: its name, arguments and what it did
    ret,      \* the value the last call returned
    ev,       \* the component calls the last Bus.clock made, in order
    edges,    \* false-to-true transitions of ppu.frameComplete since start-up
    nmis,     \* cpu.NMI calls since the host last cleared frameComplete
    latched,  \* the controller byte latched by the last 0x4016 write, reads since
    clocks,   \* cpu.clock calls since the last reset
    fetches,  \* opcode fetches since the last reset
    ops       \* calls counted against the bound of the specification

vars == <<bus, cpu, ppu, rom, threw, call, ret, ev, edges, nmis, latched,
          clocks, fetches, ops>>

---------------------------------------------------------------------------
(* JavaScript values and bitwise arithmetic                                *)

\* JavaScript's undefined (and NaN, which every use here treats alike): what
\* an out-of-range typed-array read yields.  No number the program computes.
Undef == -2147483647

\* JavaScript's null: what the cartridge returns for an address it declines.
Null == -2147483646

U8 == 256

U16 == 65536

RECURSIVE Pow2(_)
Pow2(n) == IF n = 0 THEN 1 ELSE 2 * Pow2(n - 1)

\* ToInt32 of a JavaScript value: undefined, NaN and null convert to 0.  The
\* numbers the program feeds to bitwise operators all lie within 32 bits.
ToInt32(x) == IF x = Undef \/ x = Null THEN 0 ELSE x

\* bitwise operators on signed two's-complement integers (\div floors, so
\* halving a negative number converges to -1, the all-ones pattern)
RECURSIVE AndN(_, _)
AndN(a, b) == IF a = 0 \/ b = 0 THEN 0
              ELSE IF a = -1 THEN b
              ELSE IF b = -1 THEN a
              ELSE (a % 2) * (b % 2) + 2 * AndN(a \div 2, b \div 2)

RECURSIVE OrN(_, _)
OrN(a, b) == IF a = 0 THEN b
             ELSE IF b = 0 THEN a
             ELSE IF a = -1 \/ b = -1 THEN -1
             ELSE (IF a % 2 = 1 \/ b % 2 = 1 THEN 1 ELSE 0) + 2 * OrN(a \div 2, b \div 2)

RECURSIVE XorN(_, _)
XorN(a, b) == IF a = 0 THEN b
              ELSE IF b = 0 THEN a
              ELSE IF a = -1 THEN -1 - b
              ELSE IF b = -1 THEN -1 - a
              ELSE ((a + b) % 2) + 2 * XorN(a \div 2, b \div 2)

\* a & b, a | b, a ^ b, ~a, a << n (kept to 32 bits, bit 31 the sign), a >> n
And(a, b) == AndN(ToInt32(a), ToInt32(b))

Or(a, b) == OrN(ToInt32(a), ToInt32(b))

Xor(a, b) == XorN(ToInt32(a), ToInt32(b))

Not(a) == -1 - ToInt32(a)

Shl(a, n) ==
    IF n = 0 THEN ToInt32(a)
    ELSE (ToInt32(a) % Pow2(31 - n)) * Pow2(n)
           - (IF (ToInt32(a) \div Pow2(31 - n)) % 2 = 1 THEN 2147483647 ELSE 0)
           - (IF (ToInt32(a) \div Pow2(31 - n)) % 2 = 1 THEN 1 ELSE 0)

Shr(a, n) == ToInt32(a) \div Pow2(n)

\* a + b and a - b in JavaScript: NaN when an operand is undefined or NaN
AddJS(a, b) == IF a = Undef \/ b = Undef THEN Undef ELSE a + b

SubJS(a, b) == IF a = Undef \/ b = Undef THEN Undef ELSE a - b

\* a > b and a === b on numbers: false when an operand is undefined or NaN
GtJS(a, b) == a # Undef /\ b # Undef /\ a > b

EqJS(a, b) == a # Undef /\ b # Undef /\ a = b

\* the value a typed-array cell of modulus W holds after "cell = x"
Store(x, W) == ToInt32(x) % W

\* +Boolean(x): 1 when the number is truthy
Bool01(x) == IF x # 0 /\ x # Undef /\ x # Null THEN 1 ELSE 0

\* utils.isInRange
isInRange(val, start, end) == val >= start /\ val <= end

---------------------------------------------------------------------------
(* Zero-initialised typed arrays, kept sparse: only non-zero cells          *)

EmptyMem == [i \in {} |-> 0]

MemGet(f, k) == IF k \in DOMAIN f THEN f[k] ELSE 0

MemPut(f, k, v) ==
    IF v = 0 THEN [i \in (DOMAIN f) \ {k} |-> f[i]]
    ELSE [i \in (DOMAIN f) \cup {k} |-> IF i = k THEN v ELSE f[i]]

\* A byte array of length len: read of an index outside it is undefined,
\* a write outside it is dropped.
ArrGet(f, len, k) == IF k >= 0 /\ k < len THEN MemGet(f, k) ELSE Undef

ArrPut(f, len, k, v) == IF k >= 0 /\ k < len THEN MemPut(f, k, Store(v, U8)) ELSE f

---------------------------------------------------------------------------
(* Register<T>: a one-cell typed array of modulus W (256 or 65536)          *)

getBit(d, pos) == And(Shr(d, pos), 1)

getBits(d, pos, width) == And(Shr(d, pos), Shl(1, width) - 1)

setBit(d, pos, W) == Store(Or(d, Shl(1, pos)), W)

clearBit(d, pos, W) == Store(And(d, Not(Shl(1, pos))), W)

storeBit(d, pos, val, W) ==
    LET cleared == Store(And(d, Not(Shl(1, pos))), W)
    IN  Store(Or(cleared, Shl(val, pos)), W)

storeBits(d, val, pos, width, W) ==
    LET mask == Shl(1, width) - 1
        v    == And(val, mask)
    IN  Store(And(d, Or(Not(Shl(mask, width)), Shl(v, width))), W)

incr(d, W) == (d + 1) % W

decr(d, W) == (d - 1) % W

\* faulty variant of shiftLeft: the cell is left as it was
shiftLeftStuck(d, W) == Store(d, W)

shiftLeft(d, W) == Store(Shl(d, 1), W)

add(d, val, W) == (d + val) % W


---------------------------------------------------------------------------
(* Cartridge: iNES header fields, PRG/CHR bodies and the NROM mapper       *)

\* rom.ts: PRG-ROM bytes per header unit
PRG_ROM_SIZE == 16384

\* rom.ts: CHR-ROM bytes per header unit
CHR_ROM_SIZE == 8192

\* JavaScript truthiness of a number | null | undefined
Truthy(x) == x # Null /\ x # Undef /\ x # 0

\* new ROM(image): the header's unit counts size the two bodies; the mapper
\* is constructed from the per-unit byte sizes.
NewROM(prgUnits, chrUnits, mirroring, prgImage, chrImage) ==
    [ PRG_ROM_size |-> prgUnits,
      CHR_ROM_size |-> chrUnits,
      mirroring    |-> mirroring,
      PRGROMData   |-> prgImage,
      PRGLength    |-> PRG_ROM_SIZE * prgUnits,
      CHRROMData   |-> chrImage,
      CHRLength    |-> CHR_ROM_SIZE * chrUnits,
      mapperPRGROMsize |-> PRG_ROM_SIZE,
      mapperCHRROMsize |-> CHR_ROM_SIZE ]

cpuMapRead(r, address) ==
    IF isInRange(address, 32768, 65535)
    THEN And(address, IF r.mapperPRGROMsize > 1 THEN 32767 ELSE 16383)
    ELSE Null

cpuMapWrite(r, address) ==
    IF isInRange(address, 32768, 65535)
    THEN And(address, IF r.mapperPRGROMsize > 1 THEN 32767 ELSE 16383)
    ELSE Null

ppuMapRead(r, address) ==
    IF isInRange(address, 0, 8191) THEN address ELSE Null

\* Bus.rom before connectRom: the constructor's null
NoROM == [connected |-> FALSE]

\* whether r is a cartridge (not the constructor's null)
HasROM(r) == "PRGROMData" \in DOMAIN r

\* ROM.cpuRead: a byte, undefined (offset past the array), or null (declined)
ROMcpuRead(r, address) ==
    LET mappedAddress == cpuMapRead(r, address)
    IN  IF Truthy(mappedAddress)
        THEN ArrGet(r.PRGROMData, r.PRGLength, mappedAddress)
        ELSE Null

\* ROM.cpuWrite: [rom |-> the cartridge afterwards, res |-> 1 or null]
ROMcpuWrite(r, address, data) ==
    LET mappedAddress == cpuMapWrite(r, address)
    IN  IF Truthy(mappedAddress)
        THEN [ rom |-> [r EXCEPT !.PRGROMData =
                           ArrPut(r.PRGROMData, r.PRGLength, mappedAddress, data)],
               res |-> 1 ]
        ELSE [ rom |-> r, res |-> Null ]

ROMppuRead(r, address) ==
    LET mappedAddress == ppuMapRead(r, address)
    IN  IF Truthy(mappedAddress)
        THEN ArrGet(r.CHRROMData, r.CHRLength, mappedAddress)
        ELSE Null

---------------------------------------------------------------------------
(* PPU                                                                     *)

\* new PPU()
NewPPU ==
    [ PPUCTRL |-> 0, PPUMASK |-> 0, PPUSTATUS |-> 128, OAMADDR |-> 0,
      OAMDATA |-> 0, PPUSCROLL |-> 0, PPUADDR |-> 0, PPUDATA |-> 0,
      vReg |-> 0, tReg |-> 0, fineX |-> 0, w |-> 0,
      nametables |-> <<EmptyMem, EmptyMem>>,
      patternTable |-> <<EmptyMem, EmptyMem>>,
      paletteTable |-> EmptyMem,
      shiftPatternLow |-> 0, shiftPatternHigh |-> 0,
      shiftAttribLow |-> 0, shiftAttribHigh |-> 0,
      tileID |-> 0, tileAttr |-> 0, tileLSB |-> 0, tileMSB |-> 0,
      scanline |-> 0, cycle |-> 0, frameComplete |-> FALSE, nmi |-> FALSE ]

\* PPU.reset
PPUreset(p) ==
    [p EXCEPT !.cycle = 0, !.scanline = 0, !.w = 0, !.fineX = 0,
              !.PPUDATA = 0, !.PPUSTATUS = 0, !.PPUMASK = 0, !.PPUCTRL = 0,
              !.vReg = 0, !.tReg = 0,
              !.tileID = 0, !.tileAttr = 0, !.tileMSB = 0, !.tileLSB = 0,
              !.shiftPatternLow = 0, !.shiftPatternHigh = 0,
              !.shiftAttribLow = 0, !.shiftAttribHigh = 0]

\* faulty variant of the bank choice: under vertical mirroring the third
\* quadrant is given the second bank
NametableBankThird(mirroring, address) ==
    IF mirroring = "VERTICAL"
    THEN (IF isInRange(address, 0, 1023) THEN 1
          ELSE IF isInRange(address, 1024, 2047) THEN 2
          ELSE IF isInRange(address, 2048, 3071) THEN 2 ELSE 2)
    ELSE (IF isInRange(address, 0, 1023) THEN 1
          ELSE IF isInRange(address, 1024, 2047) THEN 1
          ELSE IF isInRange(address, 2048, 3071) THEN 2 ELSE 2)

\* the nametable bank (1-based here) an address in 0x0000-0x0FFF selects
NametableBank(mirroring, address) ==
    IF mirroring = "VERTICAL"
    THEN (IF isInRange(address, 0, 1023) THEN 1
          ELSE IF isInRange(address, 1024, 2047) THEN 2
          ELSE IF isInRange(address, 2048, 3071) THEN 1 ELSE 2)
    ELSE (IF isInRange(address, 0, 1023) THEN 1
          ELSE IF isInRange(address, 1024, 2047) THEN 1
          ELSE IF isInRange(address, 2048, 3071) THEN 2 ELSE 2)

\* palette index folding: 0x10/0x14/0x18/0x1C mirror 0x00/0x04/0x08/0x0C
PaletteIndex(address) ==
    LET a == And(address, 31)
    IN  IF a = 16 THEN 0 ELSE IF a = 20 THEN 4
        ELSE IF a = 24 THEN 8 ELSE IF a = 28 THEN 12 ELSE a

\* PPU.ppuRead
ppuRead(p, r, addr) ==
    LET address == And(addr, 16383)
        temp    == ROMppuRead(r, address)
    IN  IF temp # Null THEN temp
        ELSE IF isInRange(address, 0, 4095)
             THEN MemGet(p.patternTable[1], And(address, 4095))
        ELSE IF isInRange(address, 4096, 8191)
             THEN MemGet(p.patternTable[2], And(address, 4095))
        ELSE IF isInRange(address, 8192, 16127)
             THEN LET a == And(address, 4095)
                  IN  MemGet(p.nametables[NametableBank(r.mirroring, a)], And(a, 1023))
        ELSE IF isInRange(address, 16128, 16383)
             THEN And(MemGet(p.paletteTable, PaletteIndex(address)),
                      IF getBit(p.PPUMASK, 0) # 0 THEN 48 ELSE 63)
        ELSE 0

\* PPU.ppuWrite: [ppu |-> , rom |-> ] afterwards
ppuWrite(p, r, addr, data) ==
    LET address == And(addr, 16383)
        cw      == ROMcpuWrite(r, address, data)
    IN  IF Truthy(cw.res) THEN [ppu |-> p, rom |-> cw.rom]
        ELSE IF isInRange(address, 0, 4095)
             THEN [ppu |-> [p EXCEPT !.patternTable[1] =
                              MemPut(@, And(address, 4095), Store(data, U8))],
                   rom |-> r]
        ELSE IF isInRange(address, 4096, 8191)
             THEN [ppu |-> [p EXCEPT !.patternTable[2] =
                              MemPut(@, And(address, 4095), Store(data, U8))],
                   rom |-> r]
        ELSE IF isInRange(address, 8192, 16127)
             THEN LET a == And(address, 4095)
                  IN  [ppu |-> [p EXCEPT !.nametables[NametableBank(r.mirroring, a)] =
                                  MemPut(@, And(a, 1023), Store(data, U8))],
                       rom |-> r]
        ELSE IF isInRange(address, 16128, 16383)
             THEN [ppu |-> [p EXCEPT !.paletteTable =
                              MemPut(@, PaletteIndex(address), Store(data, U8))],
                   rom |-> r]
        ELSE [ppu |-> p, rom |-> r]

\* faulty variant of PPU.debugRead: reading PPUSTATUS clears V, as cpuRead does
PPUdebugReadClearing(p, address) ==
    [ ppu  |-> IF address = 2 THEN [p EXCEPT !.PPUSTATUS = clearBit(@, 7, U8)] ELSE p,
      data |-> CASE address = 0 -> p.PPUCTRL
                 [] address = 1 -> p.PPUMASK
                 [] address = 2 -> And(p.PPUSTATUS, 224)
                 [] address = 3 -> p.OAMADDR
                 [] address = 4 -> p.OAMDATA
                 [] address = 5 -> p.PPUSCROLL
                 [] address = 6 -> p.PPUADDR
                 [] address = 7 -> p.PPUDATA
                 [] OTHER -> 0 ]

\* PPU.debugRead: [ppu |-> the PPU afterwards, data |-> the byte returned]
PPUdebugRead(p, address) ==
    [ ppu  |-> p,
      data |-> CASE address = 0 -> p.PPUCTRL
                 [] address = 1 -> p.PPUMASK
                 [] address = 2 -> And(p.PPUSTATUS, 224)
                 [] address = 3 -> p.OAMADDR
                 [] address = 4 -> p.OAMDATA
                 [] address = 5 -> p.PPUSCROLL
                 [] address = 6 -> p.PPUADDR
                 [] address = 7 -> p.PPUDATA
                 [] OTHER -> 0 ]

\* faulty variant of PPU.cpuRead: a PPUSTATUS read leaves the write toggle
PPUcpuReadKeepsToggle(p, r, address) ==
    CASE address = 2 ->
           [ ppu  |-> [p EXCEPT !.PPUSTATUS = clearBit(p.PPUSTATUS, 7, U8)],
             data |-> Or(And(p.PPUSTATUS, 224), And(p.PPUDATA, 31)) ]
      [] address = 7 ->
           LET vramVal == getBit(p.PPUCTRL, 2)
               Refill(buffered) ==
                 [ ppu  |-> [p EXCEPT !.PPUDATA = buffered,
                                      !.vReg = add(p.vReg, IF vramVal = 0 THEN 1 ELSE 32, U16)],
                   data |-> IF isInRange(address, 16128, 16383) THEN buffered ELSE p.PPUDATA ]
           IN  Refill(Store(ppuRead(p, r, p.vReg), U8))
      [] OTHER -> [ ppu |-> p, data |-> 0 ]

\* PPU.cpuRead: [ppu |-> the PPU afterwards, data |-> the byte returned]
PPUcpuRead(p, r, address) ==
    CASE address = 2 ->
           [ ppu  |-> [p EXCEPT !.PPUSTATUS = clearBit(p.PPUSTATUS, 7, U8), !.w = 0],
             data |-> Or(And(p.PPUSTATUS, 224), And(p.PPUDATA, 31)) ]
      [] address = 7 ->
           LET vramVal == getBit(p.PPUCTRL, 2)
               Refill(buffered) ==
                 [ ppu  |-> [p EXCEPT !.PPUDATA = buffered,
                                      !.vReg = add(p.vReg, IF vramVal = 0 THEN 1 ELSE 32, U16)],
                   data |-> IF isInRange(address, 16128, 16383) THEN buffered ELSE p.PPUDATA ]
           IN  Refill(Store(ppuRead(p, r, p.vReg), U8))
      [] OTHER -> [ ppu |-> p, data |-> 0 ]

\* faulty variant of PPU.cpuWrite: the first PPUADDR write keeps all of val
PPUcpuWriteUnmasked(p, r, address, val) ==
    CASE address = 0 ->
           LET ctrl == Store(val, U8)
               t1   == storeBits(p.tReg, getBit(ctrl, 0), 10, 1, U16)
               t2   == storeBits(t1, getBit(ctrl, 1), 11, 1, U16)
           IN  [ppu |-> [p EXCEPT !.PPUCTRL = ctrl, !.tReg = t2], rom |-> r]
      [] address = 1 ->
           [ppu |-> [p EXCEPT !.PPUMASK = Store(val, U8)], rom |-> r]
      [] address = 5 ->
           IF p.w = 0
           THEN [ppu |-> [p EXCEPT !.tReg = storeBits(p.tReg, Shr(val, 3), 0, 5, U16),
                                   !.fineX = And(val, 7),
                                   !.w = 1],
                 rom |-> r]
           ELSE IF p.w = 1
           THEN LET t1 == storeBits(p.tReg, Shr(val, 3), 5, 5, U16)
                    t2 == storeBits(t1, And(val, 7), 12, 3, U16)
                IN  [ppu |-> [p EXCEPT !.tReg = t2, !.w = 0], rom |-> r]
           ELSE [ppu |-> p, rom |-> r]
      [] address = 6 ->
           IF p.w = 0
           THEN LET t1 == Store(Or(Shl(And(val, 255), 8), And(p.tReg, 255)), U16)
                IN  [ppu |-> [p EXCEPT !.tReg = clearBit(t1, 15, U16), !.w = 1], rom |-> r]
           ELSE IF p.w = 1
           THEN LET t1 == Store(Or(And(p.tReg, 65280), val), U16)
                IN  [ppu |-> [p EXCEPT !.tReg = t1, !.vReg = t1, !.w = 0], rom |-> r]
           ELSE [ppu |-> p, rom |-> r]
      [] address = 7 ->
           LET Written(wr) ==
                 [ppu |-> [wr.ppu EXCEPT !.vReg = add(@, IF getBit(wr.ppu.PPUCTRL, 2) = 0
                                                         THEN 1 ELSE 32, U16)],
                  rom |-> wr.rom]
           IN  Written(ppuWrite(p, r, p.vReg, val))
      [] OTHER -> [ppu |-> p, rom |-> r]

\* PPU.cpuWrite: [ppu |-> , rom |-> ] afterwards
PPUcpuWrite(p, r, address, val) ==
    CASE address = 0 ->
           LET ctrl == Store(val, U8)
               t1   == storeBits(p.tReg, getBit(ctrl, 0), 10, 1, U16)
               t2   == storeBits(t1, getBit(ctrl, 1), 11, 1, U16)
           IN  [ppu |-> [p EXCEPT !.PPUCTRL = ctrl, !.tReg = t2], rom |-> r]
      [] address = 1 ->
           [ppu |-> [p EXCEPT !.PPUMASK = Store(val, U8)], rom |-> r]
      [] address = 5 ->
           IF p.w = 0
           THEN [ppu |-> [p EXCEPT !.tReg = storeBits(p.tReg, Shr(val, 3), 0, 5, U16),
                                   !.fineX = And(val, 7),
                                   !.w = 1],
                 rom |-> r]
           ELSE IF p.w = 1
           THEN LET t1 == storeBits(p.tReg, Shr(val, 3), 5, 5, U16)
                    t2 == storeBits(t1, And(val, 7), 12, 3, U16)
                IN  [ppu |-> [p EXCEPT !.tReg = t2, !.w = 0], rom |-> r]
           ELSE [ppu |-> p, rom |-> r]
      [] address = 6 ->
           IF p.w = 0
           THEN LET t1 == Store(Or(Shl(And(val, 63), 8), And(p.tReg, 255)), U16)
                IN  [ppu |-> [p EXCEPT !.tReg = clearBit(t1, 15, U16), !.w = 1], rom |-> r]
           ELSE IF p.w = 1
           THEN LET t1 == Store(Or(And(p.tReg, 65280), val), U16)
                IN  [ppu |-> [p EXCEPT !.tReg = t1, !.vReg = t1, !.w = 0], rom |-> r]
           ELSE [ppu |-> p, rom |-> r]
      [] address = 7 ->
           LET Written(wr) ==
                 [ppu |-> [wr.ppu EXCEPT !.vReg = add(@, IF getBit(wr.ppu.PPUCTRL, 2) = 0
                                                         THEN 1 ELSE 32, U16)],
                  rom |-> wr.rom]
           IN  Written(ppuWrite(p, r, p.vReg, val))
      [] OTHER -> [ppu |-> p, rom |-> r]


\* faulty variant of the rendering test: the sprite bit is not looked at and
\* the background bit is taken as set
RenderingAlways(p) == getBit(p.PPUMASK, 3) # 0 \/ getBit(p.PPUMASK, 4) = 0

\* "rendering enabled": PPUMASK.b or PPUMASK.s
Rendering(p) == getBit(p.PPUMASK, 3) # 0 \/ getBit(p.PPUMASK, 4) # 0

\* PPU.clock incrScrollX, on v
incrScrollX(p) ==
    IF Rendering(p)
    THEN IF getBits(p.vReg, 0, 5) = 31
         THEN LET v1   == storeBits(p.vReg, 0, 0, 5, U16)
                  temp == getBit(v1, 10)
              IN  [p EXCEPT !.vReg = storeBit(v1, 10, Not(temp), U16)]
         ELSE LET temp == getBits(p.vReg, 0, 5)
              IN  [p EXCEPT !.vReg = storeBits(p.vReg, temp + 1, 0, 5, U16)]
    ELSE p

\* PPU.clock incrScrollY, on v
incrScrollY(p) ==
    IF Rendering(p)
    THEN IF getBits(p.vReg, 12, 3) < 7
         THEN LET temp == getBits(p.vReg, 12, 3)
              IN  [p EXCEPT !.vReg = storeBits(p.vReg, temp + 1, 12, 3, U16)]
         ELSE LET v1 == storeBits(p.vReg, 0, 12, 3, U16)
                  y  == getBits(v1, 5, 5)
              IN  IF y = 29
                  THEN LET v2   == storeBits(v1, 0, 5, 5, U16)
                           temp == getBit(v2, 11)
                       IN  [p EXCEPT !.vReg = storeBit(v2, 11, Not(temp), U16)]
                  ELSE IF y = 31
                  THEN [p EXCEPT !.vReg = storeBits(v1, 0, 5, 5, U16)]
                  ELSE [p EXCEPT !.vReg = storeBits(v1, y + 1, 5, 5, U16)]
    ELSE p

\* PPU.clock transferAddrX: horizontal bits of t into v
transferAddrX(p) ==
    IF Rendering(p)
    THEN LET tempCoarseX    == getBits(p.tReg, 0, 5)
             tempNametableX == getBits(p.tReg, 10, 1)
             v1 == storeBits(p.vReg, tempCoarseX, 0, 5, U16)
         IN  [p EXCEPT !.vReg = storeBits(v1, tempNametableX, 10, 1, U16)]
    ELSE p

\* PPU.clock trnasferAddrY: vertical bits of t into v
trnasferAddrY(p) ==
    IF Rendering(p)
    THEN LET tempCoarseY    == getBits(p.tReg, 5, 5)
             tempFineY      == getBits(p.tReg, 12, 3)
             tempNametableY == getBits(p.tReg, 11, 1)
             v1 == storeBits(p.vReg, tempCoarseY, 5, 5, U16)
             v2 == storeBits(v1, tempFineY, 12, 3, U16)
         IN  [p EXCEPT !.vReg = storeBits(v2, tempNametableY, 11, 1, U16)]
    ELSE p

\* PPU.clock loadBckgShiftReg
loadBckgShiftReg(p) ==
    LET low  == Store(Or(And(p.shiftPatternLow, 65280), p.tileLSB), U16)
        high == Store(Or(And(p.shiftPatternHigh, 65280), p.tileMSB), U16)
        attr == IF And(p.tileAttr, 1) # 0 THEN 255 ELSE 0
    IN  [p EXCEPT !.shiftPatternLow  = low,
                  !.shiftPatternHigh = high,
                  !.shiftAttribLow   = Store(Or(And(low, 65280), attr), U16),
                  !.shiftAttribHigh  = Store(Or(And(p.shiftAttribHigh, 65280), attr), U16)]

\* PPU.clock updateShiftReg
updateShiftReg(p) ==
    IF getBit(p.PPUMASK, 3) # 0
    THEN [p EXCEPT !.shiftPatternLow  = shiftLeft(@, U16),
                   !.shiftPatternHigh = shiftLeft(@, U16),
                   !.shiftAttribLow   = shiftLeft(@, U16),
                   !.shiftAttribHigh  = shiftLeft(@, U16)]
    ELSE p

\* PPU.clock: the eight-dot background fetch step, keyed by (cycle - 1) % 8
FetchStep(p, r) ==
    LET phase == (p.cycle - 1) % 8
    IN  CASE phase = 0 ->
               LET Loaded(p1) ==
                     [p1 EXCEPT !.tileID = ppuRead(p1, r, Or(8192, And(p1.vReg, 4095)))]
               IN  Loaded(loadBckgShiftReg(p))
          [] phase = 2 ->
               LET tempNametableY == Shl(getBits(p.vReg, 11, 1), 11)
                   tempNametableX == Shl(getBits(p.vReg, 10, 1), 10)
                   tempCoarseY    == Shl(Shr(getBits(p.vReg, 5, 5), 2), 3)
                   tempCoarseX    == Shr(getBits(p.vReg, 0, 5), 2)
                   ShiftY(a) == IF And(getBits(p.vReg, 5, 5), 2) # 0 THEN Shr(a, 4) ELSE a
                   ShiftX(a) == IF And(getBits(p.vReg, 0, 5), 2) # 0 THEN Shr(a, 2) ELSE a
               IN  [p EXCEPT !.tileAttr =
                      And(ShiftX(ShiftY(ppuRead(p, r,
                              Or(Or(Or(Or(9152, tempNametableX), tempNametableY),
                                    tempCoarseX), tempCoarseY)))), 3)]
          [] phase = 4 ->
               LET patternTableIndex == getBit(p.PPUCTRL, 4)
               IN  [p EXCEPT !.tileLSB = ppuRead(p, r, Shl(patternTableIndex, 12)
                                                      + Shl(p.tileID, 4)
                                                      + getBits(p.vReg, 12, 3) + 0)]
          [] phase = 6 ->
               LET patternTableIndex == getBit(p.PPUCTRL, 4)
               IN  [p EXCEPT !.tileMSB = ppuRead(p, r, Shl(patternTableIndex, 12)
                                                      + Shl(p.tileID, 4)
                                                      + getBits(p.vReg, 12, 3) + 8)]
          [] phase = 7 -> incrScrollX(p)
          [] OTHER -> p

\* PPU.clock: the visible and pre-render scanlines (-1 .. 239)
RenderLine(p, r) ==
    LET SkipDot(q) ==
          IF q.scanline = 0 /\ q.cycle = 0 THEN [q EXCEPT !.cycle = 1] ELSE q
        LeaveVBlank(q) ==
          IF q.scanline = -1 /\ q.cycle = 1
          THEN [q EXCEPT !.PPUSTATUS = clearBit(@, 7, U8)] ELSE q
        Fetch(q) ==
          IF (q.cycle >= 2 /\ q.cycle < 258) \/ (q.cycle >= 321 /\ q.cycle < 338)
          THEN FetchStep(updateShiftReg(q), r) ELSE q
        ScrollY(q) == IF q.cycle = 256 THEN incrScrollY(q) ELSE q
        ReloadX(q) == IF q.cycle = 257 THEN transferAddrX(loadBckgShiftReg(q)) ELSE q
        NextTile(q) ==
          IF q.cycle = 338 \/ q.cycle = 340
          THEN [q EXCEPT !.tileID = ppuRead(q, r, Or(8192, And(q.vReg, 4095)))]
          ELSE q
        ReloadY(q) ==
          IF q.scanline = -1 /\ q.cycle >= 280 /\ q.cycle < 305
          THEN trnasferAddrY(q) ELSE q
    IN  ReloadY(NextTile(ReloadX(ScrollY(Fetch(LeaveVBlank(SkipDot(p)))))))

\* PPU.clock: entering the vertical blanking interval
VBlankLine(p) ==
    IF p.scanline = 241 /\ p.cycle = 1
    THEN [p EXCEPT !.PPUSTATUS = setBit(@, 7, U8),
                   !.nmi = IF getBit(p.PPUCTRL, 7) # 0 THEN TRUE ELSE @]
    ELSE p

\* PPU.clock: the pixel handed to display.drawPixel, <<x, y, palette entry>>
PixelOut(p, r) ==
    LET bg     == getBit(p.PPUMASK, 3) # 0
        bitMux == Shr(32768, p.fineX)
        p0 == IF bg /\ And(p.shiftPatternLow, bitMux) > 0 THEN 1 ELSE 0
        p1 == IF bg /\ And(p.shiftPatternHigh, bitMux) > 0 THEN 1 ELSE 0
        palette0 == IF bg /\ And(p.shiftAttribLow, bitMux) > 0 THEN 1 ELSE 0
        palette1 == IF bg /\ And(p.shiftAttribHigh, bitMux) > 0 THEN 1 ELSE 0
        bckgPixel   == Or(Shl(p1, 1), p0)
        bckgPalette == Or(Shl(palette1, 1), palette0)
    IN  << p.cycle - 1, p.scanline,
           And(ppuRead(p, r, 16128 + Shl(bckgPalette, 2) + bckgPixel), 63) >>

\* faulty variant of the advance: the frame ends one scanline late
AdvanceLate(p) ==
    LET c == p.cycle + 1
    IN  IF c >= 341
        THEN IF p.scanline + 1 >= 262
             THEN [p EXCEPT !.cycle = 0, !.scanline = -1, !.frameComplete = TRUE]
             ELSE [p EXCEPT !.cycle = 0, !.scanline = p.scanline + 1]
        ELSE [p EXCEPT !.cycle = c]

\* PPU.clock: advance the dot and scanline counters
Advance(p) ==
    LET c == p.cycle + 1
    IN  IF c >= 341
        THEN IF p.scanline + 1 >= 261
             THEN [p EXCEPT !.cycle = 0, !.scanline = -1, !.frameComplete = TRUE]
             ELSE [p EXCEPT !.cycle = 0, !.scanline = p.scanline + 1]
        ELSE [p EXCEPT !.cycle = c]

\* faulty variant of PPU.clock: V is also raised at dot 5 of scanline 0
PPUclockEarly(p, r) ==
    LET Visible(q) ==
          IF q.scanline >= -1 /\ q.scanline < 240 THEN RenderLine(q, r) ELSE q
        VBlank(q) ==
          IF q.scanline >= 241 /\ q.scanline < 261 THEN VBlankLine(q) ELSE q
        Early(q) ==
          IF q.scanline = 0 /\ q.cycle = 5
          THEN [q EXCEPT !.PPUSTATUS = setBit(@, 7, U8)] ELSE q
    IN  Advance(Early(VBlank(Visible(p))))

\* PPU.clock
PPUclock(p, r) ==
    LET Visible(q) ==
          IF q.scanline >= -1 /\ q.scanline < 240 THEN RenderLine(q, r) ELSE q
        VBlank(q) ==
          IF q.scanline >= 241 /\ q.scanline < 261 THEN VBlankLine(q) ELSE q
    IN  Advance(VBlank(Visible(p)))

---------------------------------------------------------------------------
(* Bus.  The machine m is the record [bus, cpu, ppu, rom, thrown]: the bus *)
(* owns the CPU, the PPU and the cartridge, and every CPU access goes       *)
(* through it.  thrown records that a statement raised a TypeError, after   *)
(* which the rest of the running call is abandoned.                         *)

\* new Bus(): 2 KiB of RAM, two controller bytes and their latches
NewBus ==
    [ cpuRAM |-> EmptyMem, systemClock |-> 0,
      controller |-> <<0, 0>>, controllerState |-> <<0, 0>> ]

\* Bus.read: [m |-> the machine afterwards, data |-> the value returned];
\* m.reads collects the addresses read during the running call.  With no
\* cartridge connected this.rom is null and the first statement throws.
BusRead(m, address) ==
    LET m0   == [m EXCEPT !.reads = @ \cup {address}]
        temp == ROMcpuRead(m.rom, address)
        FromPPU(rd) == [m |-> [m0 EXCEPT !.ppu = rd.ppu], data |-> rd.data]
    IN  IF ~HasROM(m.rom) THEN [m |-> [m0 EXCEPT !.thrown = TRUE], data |-> Undef]
        ELSE IF temp # Null THEN [m |-> m0, data |-> temp]
        ELSE IF isInRange(address, 0, 8191)
             THEN [m |-> m0, data |-> MemGet(m.bus.cpuRAM, And(address, 2047))]
        ELSE IF isInRange(address, 8192, 16383)
             THEN FromPPU(PPUcpuRead(m.ppu, m.rom, And(address, 7)))
        ELSE IF address = 16405 THEN [m |-> m0, data |-> 0]
        ELSE IF isInRange(address, 16406, 16407)
             THEN LET i == And(address, 1) + 1
                  IN  [m |-> [m0 EXCEPT !.bus.controllerState[i] = shiftLeft(@, U8)],
                       data |-> IF And(m.bus.controllerState[i], 128) > 0 THEN 1 ELSE 0]
        ELSE [m |-> m0, data |-> 0]

\* faulty variant of Bus.write: the RAM index keeps address bit 11
BusWriteWide(m, address, data) ==
    LET cw == ROMcpuWrite(m.rom, address, data)
        ToPPU(wr) == [m EXCEPT !.ppu = wr.ppu, !.rom = wr.rom]
    IN  IF ~HasROM(m.rom) THEN [m EXCEPT !.thrown = TRUE]
        ELSE IF Truthy(cw.res) THEN [m EXCEPT !.rom = cw.rom]
        ELSE IF isInRange(address, 0, 8191)
             THEN [m EXCEPT !.bus.cpuRAM = MemPut(@, And(address, 4095), Store(data, U8))]
        ELSE IF isInRange(address, 8192, 16383)
             THEN ToPPU(PPUcpuWrite(m.ppu, m.rom, And(address, 7), data))
        ELSE IF isInRange(address, 16384, 16403) \/ address = 16405 \/ address = 16407
             THEN m
        ELSE IF isInRange(address, 16406, 16407)
             THEN LET i == And(address, 1) + 1
                  IN  [m EXCEPT !.bus.controllerState[i] = m.bus.controller[i]]
        ELSE m

\* Bus.write: the machine afterwards
BusWrite(m, address, data) ==
    LET cw == ROMcpuWrite(m.rom, address, data)
        ToPPU(wr) == [m EXCEPT !.ppu = wr.ppu, !.rom = wr.rom]
    IN  IF ~HasROM(m.rom) THEN [m EXCEPT !.thrown = TRUE]
        ELSE IF Truthy(cw.res) THEN [m EXCEPT !.rom = cw.rom]
        ELSE IF isInRange(address, 0, 8191)
             THEN [m EXCEPT !.bus.cpuRAM = MemPut(@, And(address, 2047), Store(data, U8))]
        ELSE IF isInRange(address, 8192, 16383)
             THEN ToPPU(PPUcpuWrite(m.ppu, m.rom, And(address, 7), data))
        ELSE IF isInRange(address, 16384, 16403) \/ address = 16405 \/ address = 16407
             THEN m
        ELSE IF isInRange(address, 16406, 16407)
             THEN LET i == And(address, 1) + 1
                  IN  [m EXCEPT !.bus.controllerState[i] = m.bus.controller[i]]
        ELSE m

\* Bus.debugRead: [m |-> the machine afterwards, data |-> the value returned]
BusDebugRead(m, address) ==
    LET temp == ROMcpuRead(m.rom, address)
    IN  IF ~HasROM(m.rom) THEN [m |-> [m EXCEPT !.thrown = TRUE], data |-> Undef]
        ELSE IF temp # Null THEN [m |-> m, data |-> temp]
        ELSE IF isInRange(address, 0, 8191)
             THEN [m |-> m, data |-> MemGet(m.bus.cpuRAM, And(address, 2047))]
        ELSE IF isInRange(address, 8192, 16383)
             THEN LET rd == PPUdebugRead(m.ppu, And(address, 7))
                  IN  [m |-> [m EXCEPT !.ppu = rd.ppu], data |-> rd.data]
        ELSE IF isInRange(address, 16384, 16403) \/ address = 16405 \/ address = 16407
             THEN [m |-> m, data |-> 0]
        ELSE IF isInRange(address, 16406, 16407)
             THEN [m |-> m,
                   data |-> IF And(m.bus.controllerState[And(address, 1) + 1], 128) > 0
                            THEN 1 ELSE 0]
        ELSE [m |-> m, data |-> 0]

---------------------------------------------------------------------------
(* CPU                                                                     *)

\* new CPU(): the registers are zero except PS = 0x36
NewCPU ==
    [ PC |-> 0, SP |-> 0, ACC |-> 0, IRX |-> 0, IRY |-> 0, PS |-> 54,
      fetched |-> 0, absAddress |-> 0, relAddress |-> 0, opcode |-> 0,
      cycles |-> 0, internalClock |-> 0 ]

\* CPU.operations: entry k + 1 is the table's entry at index k (no slot is
\* missing), with its opcode, name, addrMode and cycles fields;
\* addrMode "NULL" is the table's null.
operations ==
    <<
      [opcode |-> 0, name |-> "BRK", addrMode |-> "IMP", cycles |-> 7],
      [opcode |-> 1, name |-> "ORA", addrMode |-> "INDX_IND_X", cycles |-> 6],
      [opcode |-> 2, name |-> "NOP", addrMode |-> "NULL", cycles |-> 0],
      [opcode |-> 3, name |-> "NOP", addrMode |-> "NULL", cycles |-> 0],
      [opcode |-> 4, name |-> "NOP", addrMode |-> "NULL", cycles |-> 0],
      [opcode |-> 5, name |-> "ORA", addrMode |-> "ZP", cycles |-> 3],
      [opcode |-> 6, name |-> "ASL", addrMode |-> "ZP", cycles |-> 5],
      [opcode |-> 7, name |-> "NOP", addrMode |-> "NULL", cycles |-> 0],
      [opcode |-> 8, name |-> "PHP", addrMode |-> "IMP", cycles |-> 3],
      [opcode |-> 9, name |-> "ORA", addrMode |-> "IMM", cycles |-> 2],
      [opcode |-> 10, name |-> "ASL", addrMode |-> "ACC", cycles |-> 2],
      [opcode |-> 11, name |-> "NOP", addrMode |-> "NULL", cycles |-> 0],
      [opcode |-> 12, name |-> "NOP", addrMode |-> "NULL", cycles |-> 0],
      [opcode |-> 13, name |-> "ORA", addrMode |-> "ABS", cycles |-> 4],
      [opcode |-> 14, name |-> "ASL", addrMode |-> "ABS", cycles |-> 6],
      [opcode |-> 15, name |-> "NOP", addrMode |-> "NULL", cycles |-> 0],
      [opcode |-> 16, name |-> "BPL", addrMode |-> "REL", cycles |-> 2],
      [opcode |-> 17, name |-> "ORA", addrMode |-> "IND_INDX_Y", cycles |-> 5],
      [opcode |-> 18, name |-> "NOP", addrMode |-> "NULL", cycles |-> 0],
      [opcode |-> 19, name |-> "NOP", addrMode |-> "NULL", cycles |-> 0],
      [opcode |-> 20, name |-> "NOP", addrMode |-> "NULL", cycles |-> 0],
      [opcode |-> 21, name |-> "ORA", addrMode |-> "ZPI_X", cycles |-> 4],
      [opcode |-> 22, name |-> "ASL", addrMode |-> "ZPI_X", cycles |-> 6],
      [opcode |-> 23, name |-> "NOP", addrMode |-> "NULL", cycles |-> 0],
      [opcode |-> 24, name |-> "CLC", addrMode |-> "IMP", cycles |-> 2],
      [opcode |-> 25, name |-> "ORA", addrMode |-> "ABSI_Y", cycles |-> 4],
      [opcode |-> 26, name |-> "NOP", addrMode |-> "NULL", cycles |-> 0],
      [opcode |-> 27, name |-> "NOP", addrMode |-> "NULL", cycles |-> 0],
      [opcode |-> 28, name |-> "NOP", addrMode |-> "NULL", cycles |-> 0],
      [opcode |-> 29, name |-> "ORA", addrMode |-> "ABSI_X", cycles |-> 4],
      [opcode |-> 30, name |-> "ASL", addrMode |-> "ABSI_X", cycles |-> 6],
      [opcode |-> 31, name |-> "NOP", addrMode |-> "NULL", cycles |-> 0],
      [opcode |-> 32, name |-> "JSR", addrMode |-> "ABS", cycles |-> 6],
      [opcode |-> 33, name |-> "AND", addrMode |-> "INDX_IND_X", cycles |-> 6],
      [opcode |-> 34, name |-> "NOP", addrMode |-> "NULL", cycles |-> 0],
      [opcode |-> 35, name |-> "NOP", addrMode |-> "NULL", cycles |-> 0],
      [opcode |-> 36, name |-> "BIT", addrMode |-> "ZP", cycles |-> 3],
      [opcode |-> 37, name |-> "AND", addrMode |-> "ZP", cycles |-> 3],
      [opcode |-> 38, name |-> "ROL", addrMode |-> "ZP", cycles |-> 5],
      [opcode |-> 39, name |-> "NOP", addrMode |-> "NULL", cycles |-> 0],
      [opcode |-> 40, name |-> "PLP", addrMode |-> "IMP", cycles |-> 4],
      [opcode |-> 41, name |-> "AND", addrMode |-> "IMM", cycles |-> 2],
      [opcode |-> 42, name |-> "ROL", addrMode |-> "ACC", cycles |-> 2],
      [opcode |-> 43, name |-> "NOP", addrMode |-> "NULL", cycles |-> 0],
      [opcode |-> 44, name |-> "BIT", addrMode |-> "ABS", cycles |-> 4],
      [opcode |-> 45, name |-> "AND", addrMode |-> "ABS", cycles |-> 4],
      [opcode |-> 46, name |-> "ROL", addrMode |-> "ABS", cycles |-> 6],
      [opcode |-> 47, name |-> "NOP", addrMode |-> "NULL", cycles |-> 0],
      [opcode |-> 48, name |-> "BMI", addrMode |-> "REL", cycles |-> 2],
      [opcode |-> 49, name |-> "AND", addrMode |-> "IND_INDX_Y", cycles |-> 5],
      [opcode |-> 50, name |-> "NOP", addrMode |-> "NULL", cycles |-> 0],
      [opcode |-> 51, name |-> "NOP", addrMode |-> "NULL", cycles |-> 0],
      [opcode |-> 52, name |-> "NOP", addrMode |-> "NULL", cycles |-> 0],
      [opcode |-> 53, name |-> "AND", addrMode |-> "ZPI_X", cycles |-> 4],
      [opcode |-> 54, name |-> "ROL", addrMode |-> "ZPI_X", cycles |-> 6],
      [opcode |-> 55, name |-> "NOP", addrMode |-> "NULL", cycles |-> 0],
      [opcode |-> 56, name |-> "SEC", addrMode |-> "IMP", cycles |-> 2],
      [opcode |-> 57, name |-> "AND", addrMode |-> "ABSI_Y", cycles |-> 4],
      [opcode |-> 58, name |-> "NOP", addrMode |-> "NULL", cycles |-> 0],
      [opcode |-> 59, name |-> "NOP", addrMode |-> "NULL", cycles |-> 0],
      [opcode |-> 60, name |-> "NOP", addrMode |-> "NULL", cycles |-> 0],
      [opcode |-> 61, name |-> "AND", addrMode |-> "ABSI_X", cycles |-> 4],
      [opcode |-> 62, name |-> "ROL", addrMode |-> "ABSI_X", cycles |-> 6],
      [opcode |-> 63, name |-> "NOP", addrMode |-> "NULL", cycles |-> 0],
      [opcode |-> 64, name |-> "RTI", addrMode |-> "IMP", cycles |-> 6],
      [opcode |-> 65, name |-> "EOR", addrMode |-> "INDX_IND_X", cycles |-> 6],
      [opcode |-> 66, name |-> "NOP", addrMode |-> "NULL", cycles |-> 0],
      [opcode |-> 67, name |-> "NOP", addrMode |-> "NULL", cycles |-> 0],
      [opcode |-> 68, name |-> "NOP", addrMode |-> "NULL", cycles |-> 0],
      [opcode |-> 69, name |-> "EOR", addrMode |-> "ZP", cycles |-> 3],
      [opcode |-> 70, name |-> "LSR", addrMode |-> "ZP", cycles |-> 5],
      [opcode |-> 71, name |-> "NOP", addrMode |-> "NULL", cycles |-> 0],
      [opcode |-> 72, name |-> "PHA", addrMode |-> "IMP", cycles |-> 3],
      [opcode |-> 73, name |-> "EOR", addrMode |-> "IMM", cycles |-> 2],
      [opcode |-> 74, name |-> "LSR", addrMode |-> "ACC", cycles |-> 2],
      [opcode |-> 75, name |-> "NOP", addrMode |-> "NULL", cycles |-> 0],
      [opcode |-> 76, name |-> "JMP", addrMode |-> "ABS", cycles |-> 3],
      [opcode |-> 77, name |-> "EOR", addrMode |-> "ABS", cycles |-> 4],
      [opcode |-> 78, name |-> "LSR", addrMode |-> "ABS", cycles |-> 6],
      [opcode |-> 79, name |-> "NOP", addrMode |-> "NULL", cycles |-> 0],
      [opcode |-> 80, name |-> "BVC", addrMode |-> "REL", cycles |-> 2],
      [opcode |-> 81, name |-> "EOR", addrMode |-> "IND_INDX_Y", cycles |-> 5],
      [opcode |-> 82, name |-> "NOP", addrMode |-> "NULL", cycles |-> 0],
      [opcode |-> 83, name |-> "NOP", addrMode |-> "NULL", cycles |-> 0],
      [opcode |-> 84, name |-> "NOP", addrMode |-> "NULL", cycles |-> 0],
      [opcode |-> 85, name |-> "EOR", addrMode |-> "ZPI_X", cycles |-> 4],
      [opcode |-> 86, name |-> "LSR", addrMode |-> "ZPI_X", cycles |-> 6],
      [opcode |-> 87, name |-> "NOP", addrMode |-> "NULL", cycles |-> 0],
      [opcode |-> 88, name |-> "CLI", addrMode |-> "IMP", cycles |-> 2],
      [opcode |-> 89, name |-> "EOR", addrMode |-> "ABSI_Y", cycles |-> 4],
      [opcode |-> 90, name |-> "NOP", addrMode |-> "NULL", cycles |-> 0],
      [opcode |-> 91, name |-> "NOP", addrMode |-> "NULL", cycles |-> 0],
      [opcode |-> 92, name |-> "NOP", addrMode |-> "NULL", cycles |-> 0],
      [opcode |-> 93, name |-> "EOR", addrMode |-> "ABSI_X", cycles |-> 4],
      [opcode |-> 94, name |-> "LSR", addrMode |-> "ABSI_X", cycles |-> 6],
      [opcode |-> 95, name |-> "NOP", addrMode |-> "NULL", cycles |-> 0],
      [opcode |-> 96, name |-> "RTS", addrMode |-> "IMP", cycles |-> 6],
      [opcode |-> 97, name |-> "ADC", addrMode |-> "INDX_IND_X", cycles |-> 6],
      [opcode |-> 98, name |-> "NOP", addrMode |-> "NULL", cycles |-> 0],
      [opcode |-> 99, name |-> "NOP", addrMode |-> "NULL", cycles |-> 0],
      [opcode |-> 100, name |-> "NOP", addrMode |-> "NULL", cycles |-> 0],
      [opcode |-> 101, name |-> "ADC", addrMode |-> "ZP", cycles |-> 3],
      [opcode |-> 102, name |-> "ROR", addrMode |-> "ZP", cycles |-> 5],
      [opcode |-> 103, name |-> "NOP", addrMode |-> "NULL", cycles |-> 0],
      [opcode |-> 104, name |-> "PLA", addrMode |-> "IMP", cycles |-> 4],
      [opcode |-> 105, name |-> "ADC", addrMode |-> "IMM", cycles |-> 2],
      [opcode |-> 106, name |-> "ROR", addrMode |-> "ACC", cycles |-> 2],
      [opcode |-> 107, name |-> "NOP", addrMode |-> "NULL", cycles |-> 0],
      [opcode |-> 108, name |-> "JMP", addrMode |-> "IND", cycles |-> 6],
      [opcode |-> 109, name |-> "ADC", addrMode |-> "ABS", cycles |-> 4],
      [opcode |-> 110, name |-> "ROR", addrMode |-> "ABSI_X", cycles |-> 6],
      [opcode |-> 111, name |-> "NOP", addrMode |-> "NULL", cycles |-> 0],
      [opcode |-> 112, name |-> "BVS", addrMode |-> "REL", cycles |-> 2],
      [opcode |-> 113, name |-> "ADC", addrMode |-> "IND_INDX_Y", cycles |-> 5],
      [opcode |-> 114, name |-> "NOP", addrMode |-> "NULL", cycles |-> 0],
      [opcode |-> 115, name |-> "NOP", addrMode |-> "NULL", cycles |-> 0],
      [opcode |-> 116, name |-> "NOP", addrMode |-> "NULL", cycles |-> 0],
      [opcode |-> 117, name |-> "ADC", addrMode |-> "ZPI_X", cycles |-> 4],
      [opcode |-> 118, name |-> "ROR", addrMode |-> "ZPI_X", cycles |-> 6],
      [opcode |-> 119, name |-> "NOP", addrMode |-> "NULL", cycles |-> 0],
      [opcode |-> 120, name |-> "SEI", addrMode |-> "IMP", cycles |-> 2],
      [opcode |-> 121, name |-> "ADC", addrMode |-> "ABSI_Y", cycles |-> 4],
      [opcode |-> 122, name |-> "NOP", addrMode |-> "NULL", cycles |-> 0],
      [opcode |-> 123, name |-> "NOP", addrMode |-> "NULL", cycles |-> 0],
      [opcode |-> 124, name |-> "NOP", addrMode |-> "NULL", cycles |-> 0],
      [opcode |-> 125, name |-> "ADC", addrMode |-> "ABSI_X", cycles |-> 4],
      [opcode |-> 126, name |-> "ROR", addrMode |-> "ABS", cycles |-> 6],
      [opcode |-> 127, name |-> "NOP", addrMode |-> "NULL", cycles |-> 0],
      [opcode |-> 128, name |-> "NOP", addrMode |-> "NULL", cycles |-> 0],
      [opcode |-> 129, name |-> "STA", addrMode |-> "INDX_IND_X", cycles |-> 6],
      [opcode |-> 130, name |-> "NOP", addrMode |-> "NULL", cycles |-> 0],
      [opcode |-> 131, name |-> "NOP", addrMode |-> "NULL", cycles |-> 0],
      [opcode |-> 132, name |-> "STY", addrMode |-> "ZP", cycles |-> 3],
      [opcode |-> 133, name |-> "STA", addrMode |-> "ZP", cycles |-> 3],
      [opcode |-> 134, name |-> "STX", addrMode |-> "ZP", cycles |-> 5],
      [opcode |-> 135, name |-> "NOP", addrMode |-> "NULL", cycles |-> 0],
      [opcode |-> 136, name |-> "DEY", addrMode |-> "IMP", cycles |-> 2],
      [opcode |-> 137, name |-> "NOP", addrMode |-> "NULL", cycles |-> 0],
      [opcode |-> 138, name |-> "TXA", addrMode |-> "IMP", cycles |-> 2],
      [opcode |-> 139, name |-> "NOP", addrMode |-> "NULL", cycles |-> 0],
      [opcode |-> 140, name |-> "STY", addrMode |-> "ABS", cycles |-> 4],
      [opcode |-> 141, name |-> "STA", addrMode |-> "ABS", cycles |-> 4],
      [opcode |-> 142, name |-> "STX", addrMode |-> "ABS", cycles |-> 4],
      [opcode |-> 143, name |-> "NOP", addrMode |-> "NULL", cycles |-> 0],
      [opcode |-> 144, name |-> "BCC", addrMode |-> "REL", cycles |-> 2],
      [opcode |-> 145, name |-> "STA", addrMode |-> "IND_INDX_Y", cycles |-> 6],
      [opcode |-> 146, name |-> "NOP", addrMode |-> "NULL", cycles |-> 0],
      [opcode |-> 147, name |-> "NOP", addrMode |-> "NULL", cycles |-> 0],
      [opcode |-> 148, name |-> "STY", addrMode |-> "ZPI_X", cycles |-> 4],
      [opcode |-> 149, name |-> "STA", addrMode |-> "ZPI_X", cycles |-> 4],
      [opcode |-> 150, name |-> "STX", addrMode |-> "ZPI_Y", cycles |-> 4],
      [opcode |-> 151, name |-> "NOP", addrMode |-> "NULL", cycles |-> 0],
      [opcode |-> 152, name |-> "TYA", addrMode |-> "IMP", cycles |-> 2],
      [opcode |-> 153, name |-> "STA", addrMode |-> "ABSI_Y", cycles |-> 5],
      [opcode |-> 154, name |-> "TXS", addrMode |-> "IMP", cycles |-> 2],
      [opcode |-> 155, name |-> "NOP", addrMode |-> "NULL", cycles |-> 0],
      [opcode |-> 156, name |-> "NOP", addrMode |-> "NULL", cycles |-> 0],
      [opcode |-> 157, name |-> "STA", addrMode |-> "ABSI_Y", cycles |-> 5],
      [opcode |-> 158, name |-> "NOP", addrMode |-> "NULL", cycles |-> 0],
      [opcode |-> 159, name |-> "NOP", addrMode |-> "NULL", cycles |-> 0],
      [opcode |-> 160, name |-> "LDY", addrMode |-> "IMM", cycles |-> 2],
      [opcode |-> 161, name |-> "LDA", addrMode |-> "INDX_IND_X", cycles |-> 6],
      [opcode |-> 162, name |-> "LDX", addrMode |-> "IMM", cycles |-> 2],
      [opcode |-> 163, name |-> "NOP", addrMode |-> "NULL", cycles |-> 0],
      [opcode |-> 164, name |-> "LDY", addrMode |-> "ZP", cycles |-> 3],
      [opcode |-> 165, name |-> "LDA", addrMode |-> "ZP", cycles |-> 3],
      [opcode |-> 166, name |-> "LDX", addrMode |-> "ZP", cycles |-> 3],
      [opcode |-> 167, name |-> "NOP", addrMode |-> "NULL", cycles |-> 0],
      [opcode |-> 168, name |-> "TAY", addrMode |-> "IMP", cycles |-> 2],
      [opcode |-> 169, name |-> "LDA", addrMode |-> "IMM", cycles |-> 2],
      [opcode |-> 170, name |-> "TAX", addrMode |-> "IMP", cycles |-> 2],
      [opcode |-> 171, name |-> "NOP", addrMode |-> "NULL", cycles |-> 0],
      [opcode |-> 172, name |-> "LDY", addrMode |-> "ABS", cycles |-> 4],
      [opcode |-> 173, name |-> "LDA", addrMode |-> "ABS", cycles |-> 4],
      [opcode |-> 174, name |-> "LDX", addrMode |-> "ABS", cycles |-> 4],
      [opcode |-> 175, name |-> "NOP", addrMode |-> "NULL", cycles |-> 0],
      [opcode |-> 176, name |-> "BCS", addrMode |-> "REL", cycles |-> 2],
      [opcode |-> 177, name |-> "LDA", addrMode |-> "IND_INDX_Y", cycles |-> 5],
      [opcode |-> 178, name |-> "NOP", addrMode |-> "NULL", cycles |-> 0],
      [opcode |-> 179, name |-> "NOP", addrMode |-> "NULL", cycles |-> 0],
      [opcode |-> 180, name |-> "LDY", addrMode |-> "ZPI_X", cycles |-> 5],
      [opcode |-> 181, name |-> "LDA", addrMode |-> "ZPI_X", cycles |-> 4],
      [opcode |-> 182, name |-> "LDX", addrMode |-> "ZPI_Y", cycles |-> 4],
      [opcode |-> 183, name |-> "NOP", addrMode |-> "NULL", cycles |-> 0],
      [opcode |-> 184, name |-> "CLV", addrMode |-> "IMP", cycles |-> 2],
      [opcode |-> 185, name |-> "LDA", addrMode |-> "ABSI_Y", cycles |-> 4],
      [opcode |-> 186, name |-> "TSX", addrMode |-> "IMP", cycles |-> 2],
      [opcode |-> 187, name |-> "NOP", addrMode |-> "NULL", cycles |-> 0],
      [opcode |-> 188, name |-> "LDY", addrMode |-> "ABSI_X", cycles |-> 4],
      [opcode |-> 189, name |-> "LDA", addrMode |-> "ABSI_X", cycles |-> 4],
      [opcode |-> 190, name |-> "LDX", addrMode |-> "ABSI_Y", cycles |-> 4],
      [opcode |-> 191, name |-> "NOP", addrMode |-> "NULL", cycles |-> 0],
      [opcode |-> 192, name |-> "CPY", addrMode |-> "IMM", cycles |-> 2],
      [opcode |-> 193, name |-> "CMP", addrMode |-> "INDX_IND_X", cycles |-> 6],
      [opcode |-> 194, name |-> "NOP", addrMode |-> "NULL", cycles |-> 0],
      [opcode |-> 195, name |-> "NOP", addrMode |-> "NULL", cycles |-> 0],
      [opcode |-> 196, name |-> "CPY", addrMode |-> "ZP", cycles |-> 3],
      [opcode |-> 197, name |-> "CMP", addrMode |-> "ZP", cycles |-> 3],
      [opcode |-> 198, name |-> "DEC", addrMode |-> "ZP", cycles |-> 5],
      [opcode |-> 199, name |-> "NOP", addrMode |-> "NULL", cycles |-> 0],
      [opcode |-> 200, name |-> "INY", addrMode |-> "IMP", cycles |-> 2],
      [opcode |-> 201, name |-> "CMP", addrMode |-> "IMM", cycles |-> 2],
      [opcode |-> 202, name |-> "DEX", addrMode |-> "IMP", cycles |-> 2],
      [opcode |-> 203, name |-> "NOP", addrMode |-> "NULL", cycles |-> 0],
      [opcode |-> 204, name |-> "CPY", addrMode |-> "ABS", cycles |-> 4],
      [opcode |-> 205, name |-> "CMP", addrMode |-> "ABS", cycles |-> 4],
      [opcode |-> 206, name |-> "DEC", addrMode |-> "ABS", cycles |-> 6],
      [opcode |-> 207, name |-> "NOP", addrMode |-> "NULL", cycles |-> 0],
      [opcode |-> 208, name |-> "BNE", addrMode |-> "REL", cycles |-> 2],
      [opcode |-> 209, name |-> "CMP", addrMode |-> "IND_INDX_Y", cycles |-> 5],
      [opcode |-> 210, name |-> "NOP", addrMode |-> "NULL", cycles |-> 0],
      [opcode |-> 211, name |-> "NOP", addrMode |-> "NULL", cycles |-> 0],
      [opcode |-> 212, name |-> "NOP", addrMode |-> "NULL", cycles |-> 0],
      [opcode |-> 213, name |-> "CMP", addrMode |-> "ZPI_X", cycles |-> 5],
      [opcode |-> 214, name |-> "DEC", addrMode |-> "ZPI_X", cycles |-> 6],
      [opcode |-> 215, name |-> "NOP", addrMode |-> "NULL", cycles |-> 0],
      [opcode |-> 216, name |-> "CLD", addrMode |-> "IMP", cycles |-> 2],
      [opcode |-> 217, name |-> "CMP", addrMode |-> "ABSI_Y", cycles |-> 4],
      [opcode |-> 218, name |-> "NOP", addrMode |-> "NULL", cycles |-> 0],
      [opcode |-> 219, name |-> "NOP", addrMode |-> "NULL", cycles |-> 0],
      [opcode |-> 220, name |-> "NOP", addrMode |-> "NULL", cycles |-> 0],
      [opcode |-> 221, name |-> "CMP", addrMode |-> "ABSI_X", cycles |-> 4],
      [opcode |-> 222, name |-> "DEC", addrMode |-> "ABSI_X", cycles |-> 7],
      [opcode |-> 223, name |-> "NOP", addrMode |-> "NULL", cycles |-> 0],
      [opcode |-> 224, name |-> "CPX", addrMode |-> "IMM", cycles |-> 2],
      [opcode |-> 225, name |-> "SBC", addrMode |-> "INDX_IND_X", cycles |-> 6],
      [opcode |-> 226, name |-> "NOP", addrMode |-> "NULL", cycles |-> 0],
      [opcode |-> 227, name |-> "NOP", addrMode |-> "NULL", cycles |-> 0],
      [opcode |-> 228, name |-> "CPX", addrMode |-> "ZP", cycles |-> 3],
      [opcode |-> 229, name |-> "SBC", addrMode |-> "ZP", cycles |-> 3],
      [opcode |-> 230, name |-> "INC", addrMode |-> "ZP", cycles |-> 2],
      [opcode |-> 231, name |-> "NOP", addrMode |-> "NULL", cycles |-> 0],
      [opcode |-> 232, name |-> "INX", addrMode |-> "IMP", cycles |-> 2],
      [opcode |-> 233, name |-> "SBC", addrMode |-> "IMM", cycles |-> 2],
      [opcode |-> 234, name |-> "NOP", addrMode |-> "IMP", cycles |-> 2],
      [opcode |-> 235, name |-> "NOP", addrMode |-> "NULL", cycles |-> 0],
      [opcode |-> 236, name |-> "CPX", addrMode |-> "ABS", cycles |-> 4],
      [opcode |-> 237, name |-> "SBC", addrMode |-> "ABS", cycles |-> 4],
      [opcode |-> 238, name |-> "INC", addrMode |-> "ABS", cycles |-> 6],
      [opcode |-> 239, name |-> "NOP", addrMode |-> "NULL", cycles |-> 0],
      [opcode |-> 240, name |-> "BEQ", addrMode |-> "REL", cycles |-> 2],
      [opcode |-> 241, name |-> "SBC", addrMode |-> "IND_INDX_Y", cycles |-> 5],
      [opcode |-> 242, name |-> "NOP", addrMode |-> "NULL", cycles |-> 0],
      [opcode |-> 243, name |-> "NOP", addrMode |-> "NULL", cycles |-> 0],
      [opcode |-> 244, name |-> "NOP", addrMode |-> "NULL", cycles |-> 0],
      [opcode |-> 245, name |-> "SBC", addrMode |-> "ZPI_X", cycles |-> 5],
      [opcode |-> 246, name |-> "INC", addrMode |-> "ZPI_X", cycles |-> 4],
      [opcode |-> 247, name |-> "NOP", addrMode |-> "NULL", cycles |-> 0],
      [opcode |-> 248, name |-> "SED", addrMode |-> "IMP", cycles |-> 6],
      [opcode |-> 249, name |-> "SBC", addrMode |-> "ABSI_Y", cycles |-> 4],
      [opcode |-> 250, name |-> "SBC", addrMode |-> "ABSI_X", cycles |-> 4],
      [opcode |-> 251, name |-> "NOP", addrMode |-> "NULL", cycles |-> 0],
      [opcode |-> 252, name |-> "NOP", addrMode |-> "NULL", cycles |-> 0],
      [opcode |-> 253, name |-> "INC", addrMode |-> "ABSI_X", cycles |-> 7],
      [opcode |-> 254, name |-> "NOP", addrMode |-> "NULL", cycles |-> 0],
      [opcode |-> 255, name |-> "NOP", addrMode |-> "NULL", cycles |-> 0]
    >>

\* the two PC-relative operand bytes: low = read(PC), PC++, high = read(PC), PC++
ReadOperandWord(m) ==
    LET Second(lo) ==
          LET Both(hi) ==
                [m |-> [hi.m EXCEPT !.cpu.PC = incr(@, U16)],
                 low |-> lo.data, high |-> hi.data]
          IN  Both(BusRead([lo.m EXCEPT !.cpu.PC = incr(@, U16)], incr(lo.m.cpu.PC, U16)))
    IN  Second(BusRead(m, m.cpu.PC))

\* the one PC-relative operand byte: read(PC), PC++
ReadOperandByte(m) ==
    LET Got(rd) == [m |-> [rd.m EXCEPT !.cpu.PC = incr(@, U16)], data |-> rd.data]
    IN  Got(BusRead(m, m.cpu.PC))

\* CPU.execAddrModeFunc: [m |-> , cycles |-> the extra cycles returned]
execAddrModeFunc(m, mode) ==
    CASE mode = "IMP" \/ mode = "ACC" ->
           [m |-> [m EXCEPT !.cpu.fetched = m.cpu.ACC], cycles |-> 0]
      [] mode = "IMM" ->
           [m |-> [m EXCEPT !.cpu.absAddress = m.cpu.PC, !.cpu.PC = incr(@, U16)],
            cycles |-> 0]
      [] mode = "ZP" ->
           LET On(rd) ==
                 [m |-> [rd.m EXCEPT !.cpu.absAddress = And(rd.data, 255)], cycles |-> 0]
           IN  On(ReadOperandByte(m))
      [] mode = "ABS" ->
           LET On(rd) ==
                 [m |-> [rd.m EXCEPT !.cpu.absAddress = Or(Shl(rd.high, 8), rd.low)],
                  cycles |-> 0]
           IN  On(ReadOperandWord(m))
      [] mode = "REL" ->
           LET On(rd) ==
                 [m |-> [rd.m EXCEPT !.cpu.relAddress =
                           IF And(rd.data, 128) # 0 THEN Or(rd.data, 65280) ELSE rd.data],
                  cycles |-> 0]
           IN  On(ReadOperandByte(m))
      [] mode = "IND" ->
           LET On(rd) ==
                 LET pointerAddress == Or(Shl(rd.high, 8), rd.low)
                     High(hi) ==
                       LET Low(lo) ==
                             [m |-> [lo.m EXCEPT !.cpu.absAddress =
                                       Or(Shl(hi.data, 8), lo.data)],
                              cycles |-> 0]
                       IN  Low(BusRead(hi.m, pointerAddress + 0))
                 IN  High(BusRead(rd.m, IF rd.low = 255 THEN And(pointerAddress, 65280)
                                        ELSE pointerAddress + 1))
           IN  On(ReadOperandWord(m))
      [] mode = "ZPI_X" ->
           LET On(rd) ==
                 [m |-> [rd.m EXCEPT !.cpu.absAddress = And(AddJS(rd.data, m.cpu.IRX), 255)],
                  cycles |-> 0]
           IN  On(ReadOperandByte(m))
      [] mode = "ZPI_Y" ->
           LET On(rd) ==
                 [m |-> [rd.m EXCEPT !.cpu.absAddress = And(AddJS(rd.data, m.cpu.IRY), 255)],
                  cycles |-> 0]
           IN  On(ReadOperandByte(m))
      [] mode = "ABSI_X" ->
           LET On(rd) ==
                 LET abs == Or(Shl(rd.high, 8), rd.low) + m.cpu.IRX
                 IN  [m |-> [rd.m EXCEPT !.cpu.absAddress = abs],
                      cycles |-> IF And(abs, 65280) # Shl(rd.high, 8) THEN 1 ELSE 0]
           IN  On(ReadOperandWord(m))
      [] mode = "ABSI_Y" ->
           LET On(rd) ==
                 LET abs == Or(Shl(rd.high, 8), rd.low) + m.cpu.IRY
                 IN  [m |-> [rd.m EXCEPT !.cpu.absAddress = abs],
                      cycles |-> IF And(abs, 65280) # Shl(rd.high, 8) THEN 1 ELSE 0]
           IN  On(ReadOperandWord(m))
      [] mode = "INDX_IND_X" ->
           LET On(rd) ==
                 LET Low(lo) ==
                       LET High(hi) ==
                             [m |-> [hi.m EXCEPT !.cpu.absAddress =
                                       Or(Shl(hi.data, 8), lo.data)],
                              cycles |-> 0]
                       IN  High(BusRead(lo.m,
                                        And(AddJS(AddJS(rd.data, m.cpu.IRX), 1), 255)))
                 IN  Low(BusRead(rd.m, And(AddJS(rd.data, m.cpu.IRX), 255)))
           IN  On(ReadOperandByte(m))
      [] mode = "IND_INDX_Y" ->
           LET On(rd) ==
                 LET Low(lo) ==
                       LET High(hi) ==
                             LET abs == Or(Shl(hi.data, 8), lo.data) + m.cpu.IRY
                             IN  [m |-> [hi.m EXCEPT !.cpu.absAddress = abs],
                                  cycles |-> IF And(abs, 65280) # Shl(hi.data, 8)
                                             THEN 1 ELSE 0]
                       IN  High(BusRead(lo.m, And(AddJS(rd.data, 1), 255)))
                 IN  Low(BusRead(rd.m, And(rd.data, 255)))
           IN  On(ReadOperandByte(m))
      [] OTHER -> [m |-> m, cycles |-> 0]

\* CPU.writeToStack
writeToStack(m, val) ==
    [BusWrite(m, 256 + m.cpu.SP, val) EXCEPT !.cpu.SP = decr(@, U8)]

\* CPU.readFromStack: [m |-> , data |-> ]
readFromStack(m) ==
    BusRead([m EXCEPT !.cpu.SP = incr(@, U8)], 256 + incr(m.cpu.SP, U8))

\* CPU.loadFromMemory: [m |-> , data |-> ]
loadFromMemory(m) ==
    IF operations[m.cpu.opcode + 1].addrMode = "IMP"
    THEN [m |-> m, data |-> 0]
    ELSE BusRead(m, m.cpu.absAddress)

\* the shared body of NMI and IRQ: push PC and status, load PC from the vector
Interrupt(m, vector, cyc) ==
    LET PushHigh(q) == writeToStack(q, And(Shr(q.cpu.PC, 8), 255))
        PushLow(q)  == writeToStack(q, And(q.cpu.PC, 255))
        Flags(q)    == [q EXCEPT !.cpu.PS = setBit(clearBit(@, 4, U8), 2, U8)]
        PushFlags(q) == writeToStack(q, q.cpu.PS)
        Low(lo) ==
          LET High(hi) ==
                [hi.m EXCEPT !.cpu.PC = Store(Or(Shl(hi.data, 8), lo.data), U16),
                             !.cpu.cycles = cyc]
          IN  High(BusRead(lo.m, vector + 1))
        Vector(q) == Low(BusRead([q EXCEPT !.cpu.absAddress = vector], vector))
    IN  Vector(PushFlags(Flags(PushLow(PushHigh(m)))))

\* CPU.NMI
CPUNMI(m) == Interrupt(m, 65530, 8)

\* faulty variant of CPU.IRQ: the request is taken whatever the I flag
CPUIRQUnmasked(m) == Interrupt(m, 65534, 7)

\* CPU.IRQ
CPUIRQ(m) == IF getBit(m.cpu.PS, 2) = 0 THEN Interrupt(m, 65534, 7) ELSE m

\* faulty variant of CPU.reset: seven cycles are left to burn, not eight
CPUresetShort(m) ==
    LET Low(lo) ==
          LET High(hi) ==
                [hi.m EXCEPT !.cpu.PC = Store(Or(Shl(hi.data, 8), lo.data), U16),
                             !.cpu.ACC = 0, !.cpu.IRX = 0, !.cpu.IRY = 0,
                             !.cpu.SP = 253, !.cpu.PS = 0,
                             !.cpu.absAddress = 0, !.cpu.relAddress = 0,
                             !.cpu.fetched = 0,
                             !.cpu.cycles = 7]
          IN  High(BusRead(lo.m, 65533))
    IN  Low(BusRead([m EXCEPT !.cpu.absAddress = 65532], 65532))

\* CPU.reset
CPUreset(m) ==
    LET Low(lo) ==
          LET High(hi) ==
                [hi.m EXCEPT !.cpu.PC = Store(Or(Shl(hi.data, 8), lo.data), U16),
                             !.cpu.ACC = 0, !.cpu.IRX = 0, !.cpu.IRY = 0,
                             !.cpu.SP = 253, !.cpu.PS = 0,
                             !.cpu.absAddress = 0, !.cpu.relAddress = 0,
                             !.cpu.fetched = 0,
                             !.cpu.cycles = 8]
          IN  High(BusRead(lo.m, 65533))
    IN  Low(BusRead([m EXCEPT !.cpu.absAddress = 65532], 65532))

---------------------------------------------------------------------------
(* CPU operation handlers: each yields [m |-> the machine afterwards,       *)
(* ret |-> the extra cycles the handler returns]                            *)

\* PS.storeBit(Z, +(v === 0)); PS.storeBit(N, +Boolean(v & 0x80))
SetZN(ps, v) ==
    storeBit(storeBit(ps, 1, IF v = 0 THEN 1 ELSE 0, U8), 7, Bool01(And(v, 128)), U8)

\* CPU.ADC
ADC(m) ==
    LET On(ld) ==
          LET c    == ld.m.cpu
              temp == AddJS(AddJS(c.ACC, ld.data), getBit(c.PS, 0))
              ps1  == storeBit(c.PS, 0, IF GtJS(temp, 255) THEN 1 ELSE 0, U8)
              ps2  == storeBit(ps1, 7, Bool01(And(temp, 128)), U8)
              ps3  == storeBit(ps2, 1, IF And(temp, 255) = 0 THEN 1 ELSE 0, U8)
              ps4  == storeBit(ps3, 6, And(And(Not(Xor(c.ACC, ld.data)), Xor(c.ACC, temp)), 128), U8)
          IN  [m |-> [ld.m EXCEPT !.cpu.fetched = ld.data, !.cpu.PS = ps4,
                                  !.cpu.ACC = Store(And(temp, 255), U8)],
               ret |-> 1]
    IN  On(loadFromMemory(m))

\* CPU.AND
AND(m) ==
    LET On(ld) ==
          LET acc == Store(And(m.cpu.ACC, ld.data), U8)
          IN  [m |-> [ld.m EXCEPT !.cpu.fetched = ld.data, !.cpu.ACC = acc,
                                  !.cpu.PS = SetZN(@, acc)],
               ret |-> 1]
    IN  On(loadFromMemory(m))

\* CPU.ASL
ASL(m) ==
    LET On(ld) ==
          LET c    == ld.m.cpu
              temp == Shl(ld.data, 1)
              ps1  == storeBit(c.PS, 0, IF And(temp, 65280) > 0 THEN 1 ELSE 0, U8)
              ps2  == storeBit(ps1, 7, Bool01(And(temp, 128)), U8)
              ps3  == storeBit(ps2, 1, IF And(temp, 255) = 0 THEN 1 ELSE 0, U8)
              m1   == [ld.m EXCEPT !.cpu.fetched = ld.data, !.cpu.PS = ps3]
          IN  [m |-> IF operations[c.opcode + 1].addrMode = "IMM"
                     THEN [m1 EXCEPT !.cpu.ACC = Store(temp, U8)]
                     ELSE BusWrite(m1, c.absAddress, And(temp, 255)),
               ret |-> 0]
    IN  On(loadFromMemory(m))

\* CPU.BCC
BCC(m) ==
    IF getBit(m.cpu.PS, 0) = 0
    THEN LET abs   == AddJS(m.cpu.PC, m.cpu.relAddress)
             cross == And(abs, 65280) # And(m.cpu.PC, 65280)
         IN  [m |-> [m EXCEPT !.cpu.cycles = @ + (IF cross THEN 2 ELSE 1),
                              !.cpu.absAddress = abs,
                              !.cpu.PC = Store(abs, U16)],
              ret |-> 0]
    ELSE [m |-> m, ret |-> 0]

\* CPU.BCS
BCS(m) ==
    IF getBit(m.cpu.PS, 0) # 0
    THEN LET abs   == AddJS(m.cpu.PC, m.cpu.relAddress)
             cross == And(abs, 65280) # And(m.cpu.PC, 65280)
         IN  [m |-> [m EXCEPT !.cpu.cycles = @ + (IF cross THEN 2 ELSE 1),
                              !.cpu.absAddress = abs,
                              !.cpu.PC = Store(abs, U16)],
              ret |-> 0]
    ELSE [m |-> m, ret |-> 0]

\* faulty variant of CPU.BEQ: a taken branch costs one cycle, page crossed or not
BEQFlat(m) ==
    IF getBit(m.cpu.PS, 1) # 0
    THEN LET abs   == AddJS(m.cpu.PC, m.cpu.relAddress)
             cross == And(abs, 65280) # And(m.cpu.PC, 65280)
         IN  [m |-> [m EXCEPT !.cpu.cycles = @ + (IF cross THEN 1 ELSE 1),
                              !.cpu.absAddress = abs,
                              !.cpu.PC = Store(abs, U16)],
              ret |-> 0]
    ELSE [m |-> m, ret |-> 0]

\* CPU.BEQ
BEQ(m) ==
    IF getBit(m.cpu.PS, 1) # 0
    THEN LET abs   == AddJS(m.cpu.PC, m.cpu.relAddress)
             cross == And(abs, 65280) # And(m.cpu.PC, 65280)
         IN  [m |-> [m EXCEPT !.cpu.cycles = @ + (IF cross THEN 2 ELSE 1),
                              !.cpu.absAddress = abs,
                              !.cpu.PC = Store(abs, U16)],
              ret |-> 0]
    ELSE [m |-> m, ret |-> 0]

\* CPU.BIT: the table holds the unbound method, so the call runs with the
\* table entry as "this" and its first statement raises a TypeError
BIT(m) == [m |-> [m EXCEPT !.thrown = TRUE], ret |-> 0]

\* CPU.BMI
BMI(m) ==
    IF getBit(m.cpu.PS, 7) # 0
    THEN LET abs   == Store(AddJS(m.cpu.PC, m.cpu.relAddress), U16)
             cross == And(abs, 65280) # And(m.cpu.PC, 65280)
         IN  [m |-> [m EXCEPT !.cpu.cycles = @ + (IF cross THEN 2 ELSE 1),
                              !.cpu.absAddress = abs,
                              !.cpu.PC = Store(abs, U16)],
              ret |-> 0]
    ELSE [m |-> m, ret |-> 0]

\* CPU.BNE
BNE(m) ==
    IF getBit(m.cpu.PS, 1) = 0
    THEN LET abs   == Store(AddJS(m.cpu.PC, m.cpu.relAddress), U16)
             cross == And(abs, 65280) # And(m.cpu.PC, 65280)
         IN  [m |-> [m EXCEPT !.cpu.cycles = @ + (IF cross THEN 2 ELSE 1),
                              !.cpu.absAddress = abs,
                              !.cpu.PC = Store(abs, U16)],
              ret |-> 0]
    ELSE [m |-> m, ret |-> 0]

\* CPU.BPL
BPL(m) ==
    IF getBit(m.cpu.PS, 7) = 0
    THEN LET abs   == Store(AddJS(m.cpu.PC, m.cpu.relAddress), U16)
             cross == And(abs, 65280) # And(m.cpu.PC, 65280)
         IN  [m |-> [m EXCEPT !.cpu.cycles = @ + (IF cross THEN 2 ELSE 1),
                              !.cpu.absAddress = abs,
                              !.cpu.PC = Store(abs, U16)],
              ret |-> 0]
    ELSE [m |-> m, ret |-> 0]

\* CPU.BRK
BRK(m) ==
    LET PushHigh(q)  == writeToStack(q, And(Shr(q.cpu.PC, 8), 255))
        PushLow(q)   == writeToStack(q, And(q.cpu.PC, 255))
        PushFlags(q) == writeToStack(q, q.cpu.PS)
        Low(lo) ==
          LET High(hi) ==
                [m |-> [hi.m EXCEPT !.cpu.PC = Store(Or(lo.data, Shl(hi.data, 8)), U16)],
                 ret |-> 0]
          IN  High(BusRead(lo.m, 65535))
    IN  Low(BusRead(
          [PushFlags(
             [PushLow(PushHigh([m EXCEPT !.cpu.PC = incr(@, U16),
                                         !.cpu.PS = setBit(@, 2, U8)]))
                EXCEPT !.cpu.PS = setBit(@, 4, U8)])
             EXCEPT !.cpu.PS = clearBit(@, 4, U8)],
          65534))

\* CPU.BVC
BVC(m) ==
    IF getBit(m.cpu.PS, 6) = 0
    THEN LET abs   == Store(AddJS(m.cpu.PC, m.cpu.relAddress), U16)
             cross == And(abs, 65280) # And(m.cpu.PC, 65280)
         IN  [m |-> [m EXCEPT !.cpu.cycles = @ + (IF cross THEN 2 ELSE 1),
                              !.cpu.absAddress = abs,
                              !.cpu.PC = Store(abs, U16)],
              ret |-> 0]
    ELSE [m |-> m, ret |-> 0]

\* CPU.BVS
BVS(m) ==
    IF getBit(m.cpu.PS, 6) # 0
    THEN LET abs   == Store(AddJS(m.cpu.PC, m.cpu.relAddress), U16)
             cross == And(abs, 65280) # And(m.cpu.PC, 65280)
         IN  [m |-> [m EXCEPT !.cpu.cycles = @ + (IF cross THEN 2 ELSE 1),
                              !.cpu.absAddress = abs,
                              !.cpu.PC = Store(abs, U16)],
              ret |-> 0]
    ELSE [m |-> m, ret |-> 0]

\* CPU.CLC
CLC(m) == [m |-> [m EXCEPT !.cpu.PS = clearBit(@, 0, U8)], ret |-> 0]

\* CPU.CLD
CLD(m) == [m |-> [m EXCEPT !.cpu.PS = clearBit(@, 3, U8)], ret |-> 0]

\* CPU.CLI
CLI(m) == [m |-> [m EXCEPT !.cpu.PS = clearBit(@, 2, U8)], ret |-> 0]

\* CPU.CLV
CLV(m) == [m |-> [m EXCEPT !.cpu.PS = clearBit(@, 6, U8)], ret |-> 0]

\* CPU.CMP
CMP(m) ==
    LET On(ld) ==
          LET temp == Store(SubJS(m.cpu.ACC, ld.data), U16)
              ps1  == storeBit(m.cpu.PS, 7, Bool01(And(temp, 128)), U8)
              ps2  == storeBit(ps1, 0, IF GtJS(temp, ld.data) THEN 1 ELSE 0, U8)
              ps3  == storeBit(ps2, 1, IF And(temp, 255) = 0 THEN 1 ELSE 0, U8)
          IN  [m |-> [ld.m EXCEPT !.cpu.fetched = ld.data, !.cpu.PS = ps3], ret |-> 1]
    IN  On(loadFromMemory(m))

\* CPU.CPX
CPX(m) ==
    LET On(ld) ==
          LET temp == Store(SubJS(m.cpu.IRX, ld.data), U16)
              ps1  == storeBit(m.cpu.PS, 7, Bool01(And(temp, 128)), U8)
              ps2  == storeBit(ps1, 0, IF GtJS(temp, ld.data) THEN 1 ELSE 0, U8)
              ps3  == storeBit(ps2, 1, IF And(temp, 255) = 0 THEN 1 ELSE 0, U8)
          IN  [m |-> [ld.m EXCEPT !.cpu.fetched = ld.data, !.cpu.PS = ps3], ret |-> 0]
    IN  On(loadFromMemory(m))

\* CPU.CPY
CPY(m) ==
    LET On(ld) ==
          LET temp == Store(SubJS(m.cpu.IRY, ld.data), U16)
              ps1  == storeBit(m.cpu.PS, 7, Bool01(And(temp, 128)), U8)
              ps2  == storeBit(ps1, 0, IF GtJS(temp, ld.data) THEN 1 ELSE 0, U8)
              ps3  == storeBit(ps2, 1, IF And(temp, 255) = 0 THEN 1 ELSE 0, U8)
          IN  [m |-> [ld.m EXCEPT !.cpu.fetched = ld.data, !.cpu.PS = ps3], ret |-> 0]
    IN  On(loadFromMemory(m))

\* CPU.DEC
DEC(m) ==
    LET On(ld) ==
          LET temp == SubJS(ld.data, 1)
              Flags(q) ==
                [q EXCEPT !.cpu.PS =
                   storeBit(storeBit(@, 1, IF EqJS(temp, 0) THEN 1 ELSE 0, U8),
                            7, Bool01(And(temp, 128)), U8)]
          IN  [m |-> Flags(BusWrite([ld.m EXCEPT !.cpu.fetched = ld.data],
                                    ld.m.cpu.absAddress, And(temp, 255))),
               ret |-> 0]
    IN  On(loadFromMemory(m))

\* CPU.DEX
DEX(m) ==
    LET v == decr(m.cpu.IRX, U8)
    IN  [m |-> [m EXCEPT !.cpu.IRX = v, !.cpu.PS = SetZN(@, v)], ret |-> 0]

\* CPU.DEY
DEY(m) ==
    LET v == decr(m.cpu.IRY, U8)
    IN  [m |-> [m EXCEPT !.cpu.IRY = v, !.cpu.PS = SetZN(@, v)], ret |-> 0]

\* CPU.EOR
EOR(m) ==
    LET On(ld) ==
          LET acc == Store(Xor(m.cpu.ACC, ld.data), U8)
          IN  [m |-> [ld.m EXCEPT !.cpu.fetched = ld.data, !.cpu.ACC = acc,
                                  !.cpu.PS = SetZN(@, acc)],
               ret |-> 0]
    IN  On(loadFromMemory(m))

\* CPU.INC
INC(m) ==
    LET On(ld) ==
          LET temp == AddJS(ld.data, 1)
              Flags(q) ==
                [q EXCEPT !.cpu.PS =
                   storeBit(storeBit(@, 7, And(temp, 128), U8),
                            1, IF And(temp, 255) = 0 THEN 1 ELSE 0, U8)]
          IN  [m |-> Flags(BusWrite([ld.m EXCEPT !.cpu.fetched = ld.data],
                                    ld.m.cpu.absAddress, temp)),
               ret |-> 0]
    IN  On(loadFromMemory(m))

\* CPU.INX
INX(m) ==
    LET v == incr(m.cpu.IRX, U8)
    IN  [m |-> [m EXCEPT !.cpu.IRX = v, !.cpu.PS = SetZN(@, v)], ret |-> 0]

\* CPU.INY
INY(m) ==
    LET v == incr(m.cpu.IRY, U8)
    IN  [m |-> [m EXCEPT !.cpu.IRY = v, !.cpu.PS = SetZN(@, v)], ret |-> 0]

\* CPU.JMP
JMP(m) == [m |-> [m EXCEPT !.cpu.PC = Store(m.cpu.absAddress, U16)], ret |-> 0]

\* CPU.JSR
JSR(m) ==
    LET PushHigh(q) == writeToStack(q, And(Shr(q.cpu.PC, 8), 255))
        PushLow(q)  == writeToStack(q, And(q.cpu.PC, 255))
        Jump(q)     == [q EXCEPT !.cpu.PC = Store(q.cpu.absAddress, U16)]
    IN  [m |-> Jump(PushLow(PushHigh([m EXCEPT !.cpu.PC = decr(@, U16)]))), ret |-> 0]

\* CPU.LDA
LDA(m) ==
    LET On(ld) ==
          LET v  == Store(ld.data, U8)
          IN  [m |-> [ld.m EXCEPT !.cpu.fetched = ld.data, !.cpu.ACC = v,
                                  !.cpu.PS = SetZN(@, v)],
               ret |-> 1]
    IN  On(loadFromMemory(m))

\* CPU.LDX
LDX(m) ==
    LET On(ld) ==
          LET v  == Store(ld.data, U8)
          IN  [m |-> [ld.m EXCEPT !.cpu.fetched = ld.data, !.cpu.IRX = v,
                                  !.cpu.PS = SetZN(@, v)],
               ret |-> 1]
    IN  On(loadFromMemory(m))

\* CPU.LDY
LDY(m) ==
    LET On(ld) ==
          LET v  == Store(ld.data, U8)
          IN  [m |-> [ld.m EXCEPT !.cpu.fetched = ld.data, !.cpu.IRY = v,
                                  !.cpu.PS = SetZN(@, v)],
               ret |-> 1]
    IN  On(loadFromMemory(m))

\* CPU.LSR
LSR(m) ==
    LET On(ld) ==
          LET c    == ld.m.cpu
              temp == Shr(ld.data, 1)
              ps1  == storeBit(c.PS, 0, And(ld.data, 1), U8)
              ps2  == storeBit(ps1, 7, Bool01(And(temp, 128)), U8)
              ps3  == storeBit(ps2, 1, IF And(temp, 255) = 0 THEN 1 ELSE 0, U8)
              m1   == [ld.m EXCEPT !.cpu.fetched = ld.data, !.cpu.PS = ps3]
          IN  [m |-> IF operations[c.opcode + 1].addrMode = "IMM"
                     THEN [m1 EXCEPT !.cpu.ACC = Store(temp, U8)]
                     ELSE BusWrite(m1, c.absAddress, And(temp, 255)),
               ret |-> 0]
    IN  On(loadFromMemory(m))

\* CPU.NOP
NOP(m) == [m |-> m, ret |-> IF m.cpu.opcode \in {28, 60, 92, 124, 220, 252} THEN 1 ELSE 0]

\* CPU.ORA
ORA(m) ==
    LET On(ld) ==
          LET acc == Store(Or(m.cpu.ACC, ld.data), U8)
          IN  [m |-> [ld.m EXCEPT !.cpu.fetched = ld.data, !.cpu.ACC = acc,
                                  !.cpu.PS = SetZN(@, acc)],
               ret |-> 0]
    IN  On(loadFromMemory(m))

\* CPU.PHA
PHA(m) ==
    [m |-> [BusWrite(m, 256 + m.cpu.SP, m.cpu.ACC) EXCEPT !.cpu.SP = decr(@, U8)],
     ret |-> 0]

\* CPU.PHP: the two setBit calls act on SP, as in the source
PHP(m) ==
    [m |-> [BusWrite(m, 256 + m.cpu.SP, m.cpu.PS)
              EXCEPT !.cpu.SP = decr(setBit(setBit(@, 4, U8), 5, U8), U8)],
     ret |-> 0]

\* CPU.PLA
PLA(m) ==
    LET Pulled(rd) ==
          LET v == Store(rd.data, U8)
          IN  [m |-> [rd.m EXCEPT !.cpu.ACC = v, !.cpu.PS = SetZN(@, v)], ret |-> 0]
    IN  Pulled(BusRead([m EXCEPT !.cpu.SP = incr(@, U8)], 256 + incr(m.cpu.SP, U8)))

\* CPU.PLP: the setBit call acts on SP, as in the source
PLP(m) ==
    LET Pulled(rd) ==
          [m |-> [rd.m EXCEPT !.cpu.PS = Store(rd.data, U8), !.cpu.SP = setBit(@, 5, U8)],
           ret |-> 0]
    IN  Pulled(BusRead([m EXCEPT !.cpu.SP = incr(@, U8)], 256 + incr(m.cpu.SP, U8)))

\* CPU.ROL
ROL(m) ==
    LET On(ld) ==
          LET c    == ld.m.cpu
              temp == Or(Shl(ld.data, 1), getBit(c.PS, 0))
              ps1  == storeBit(c.PS, 0, And(ld.data, 1), U8)
              ps2  == storeBit(ps1, 7, Bool01(And(temp, 128)), U8)
              ps3  == storeBit(ps2, 1, IF And(temp, 255) = 0 THEN 1 ELSE 0, U8)
              m1   == [ld.m EXCEPT !.cpu.fetched = ld.data, !.cpu.PS = ps3]
          IN  [m |-> IF operations[c.opcode + 1].addrMode = "IMM"
                     THEN [m1 EXCEPT !.cpu.ACC = Store(And(temp, 255), U8)]
                     ELSE BusWrite(m1, c.absAddress, And(temp, 255)),
               ret |-> 0]
    IN  On(loadFromMemory(m))

\* CPU.ROR: unbound in the table like BIT, so the call raises a TypeError
ROR(m) == [m |-> [m EXCEPT !.thrown = TRUE], ret |-> 0]

\* CPU.RTI
RTI(m) ==
    LET Status(ps) ==
          LET Low(lo) ==
                LET High(hi) ==
                      [m |-> [hi.m EXCEPT !.cpu.PC =
                                Store(Or(Shl(hi.data, 8), lo.data), U16)],
                       ret |-> 0]
                IN  High(readFromStack(lo.m))
          IN  Low(readFromStack([ps.m EXCEPT !.cpu.PS =
                                   clearBit(Store(ps.data, U8), 4, U8)]))
    IN  Status(readFromStack(m))

\* CPU.RTS
RTS(m) ==
    LET Low(lo) ==
          LET High(hi) ==
                [m |-> [hi.m EXCEPT !.cpu.PC =
                          incr(Store(Or(Shl(hi.data, 8), lo.data), U16), U16)],
                 ret |-> 0]
          IN  High(readFromStack(lo.m))
    IN  Low(readFromStack(m))

\* CPU.SBC
SBC(m) ==
    LET On(ld) ==
          LET c    == ld.m.cpu
              val  == Xor(ld.data, 255)
              temp == AddJS(AddJS(c.ACC, val), getBit(c.PS, 0))
              ps1  == storeBit(c.PS, 0, IF GtJS(temp, 255) THEN 1 ELSE 0, U8)
              ps2  == storeBit(ps1, 7, Bool01(And(temp, 128)), U8)
              ps3  == storeBit(ps2, 1, IF And(temp, 255) = 0 THEN 1 ELSE 0, U8)
              ps4  == storeBit(ps3, 6, And(And(Xor(c.ACC, ld.data), Xor(c.ACC, temp)), 128), U8)
          IN  [m |-> [ld.m EXCEPT !.cpu.fetched = ld.data, !.cpu.PS = ps4,
                                  !.cpu.ACC = Store(And(temp, 255), U8)],
               ret |-> 1]
    IN  On(loadFromMemory(m))

\* CPU.SEC
SEC(m) == [m |-> [m EXCEPT !.cpu.PS = setBit(@, 0, U8)], ret |-> 0]

\* CPU.SED
SED(m) == [m |-> [m EXCEPT !.cpu.PS = setBit(@, 3, U8)], ret |-> 0]

\* CPU.SEI
SEI(m) == [m |-> [m EXCEPT !.cpu.PS = setBit(@, 2, U8)], ret |-> 0]

\* CPU.STA
STA(m) == [m |-> BusWrite(m, m.cpu.absAddress, m.cpu.ACC), ret |-> 0]

\* CPU.STX
STX(m) == [m |-> BusWrite(m, m.cpu.absAddress, m.cpu.IRX), ret |-> 0]

\* CPU.STY
STY(m) == [m |-> BusWrite(m, m.cpu.absAddress, m.cpu.IRY), ret |-> 0]

\* CPU.TAX
TAX(m) ==
    [m |-> [m EXCEPT !.cpu.IRX = m.cpu.ACC, !.cpu.PS = SetZN(@, m.cpu.ACC)],
     ret |-> 0]

\* CPU.TAY
TAY(m) ==
    [m |-> [m EXCEPT !.cpu.IRY = m.cpu.ACC, !.cpu.PS = SetZN(@, m.cpu.ACC)],
     ret |-> 0]

\* CPU.TSX
TSX(m) ==
    [m |-> [m EXCEPT !.cpu.IRX = m.cpu.SP, !.cpu.PS = SetZN(@, m.cpu.SP)],
     ret |-> 0]

\* CPU.TXA
TXA(m) ==
    [m |-> [m EXCEPT !.cpu.ACC = m.cpu.IRX, !.cpu.PS = SetZN(@, m.cpu.IRX)],
     ret |-> 0]

\* CPU.TXS
TXS(m) == [m |-> [m EXCEPT !.cpu.SP = m.cpu.IRX], ret |-> 0]

\* CPU.TYA
TYA(m) ==
    [m |-> [m EXCEPT !.cpu.ACC = m.cpu.IRY, !.cpu.PS = SetZN(@, m.cpu.IRY)],
     ret |-> 0]

\* operation.handler(): dispatch on the table entry's handler
handler(m, name) ==
    CASE name = "ADC" -> ADC(m)
      [] name = "AND" -> AND(m)
      [] name = "ASL" -> ASL(m)
      [] name = "BCC" -> BCC(m)
      [] name = "BCS" -> BCS(m)
      [] name = "BEQ" -> BEQ(m)
      [] name = "BIT" -> BIT(m)
      [] name = "BMI" -> BMI(m)
      [] name = "BNE" -> BNE(m)
      [] name = "BPL" -> BPL(m)
      [] name = "BRK" -> BRK(m)
      [] name = "BVC" -> BVC(m)
      [] name = "BVS" -> BVS(m)
      [] name = "CLC" -> CLC(m)
      [] name = "CLD" -> CLD(m)
      [] name = "CLI" -> CLI(m)
      [] name = "CLV" -> CLV(m)
      [] name = "CMP" -> CMP(m)
      [] name = "CPX" -> CPX(m)
      [] name = "CPY" -> CPY(m)
      [] name = "DEC" -> DEC(m)
      [] name = "DEX" -> DEX(m)
      [] name = "DEY" -> DEY(m)
      [] name = "EOR" -> EOR(m)
      [] name = "INC" -> INC(m)
      [] name = "INX" -> INX(m)
      [] name = "INY" -> INY(m)
      [] name = "JMP" -> JMP(m)
      [] name = "JSR" -> JSR(m)
      [] name = "LDA" -> LDA(m)
      [] name = "LDX" -> LDX(m)
      [] name = "LDY" -> LDY(m)
      [] name = "LSR" -> LSR(m)
      [] name = "NOP" -> NOP(m)
      [] name = "ORA" -> ORA(m)
      [] name = "PHA" -> PHA(m)
      [] name = "PHP" -> PHP(m)
      [] name = "PLA" -> PLA(m)
      [] name = "PLP" -> PLP(m)
      [] name = "ROL" -> ROL(m)
      [] name = "ROR" -> ROR(m)
      [] name = "RTI" -> RTI(m)
      [] name = "RTS" -> RTS(m)
      [] name = "SBC" -> SBC(m)
      [] name = "SEC" -> SEC(m)
      [] name = "SED" -> SED(m)
      [] name = "SEI" -> SEI(m)
      [] name = "STA" -> STA(m)
      [] name = "STX" -> STX(m)
      [] name = "STY" -> STY(m)
      [] name = "TAX" -> TAX(m)
      [] name = "TAY" -> TAY(m)
      [] name = "TSX" -> TSX(m)
      [] name = "TXA" -> TXA(m)
      [] name = "TXS" -> TXS(m)
      [] name = "TYA" -> TYA(m)

\* CPU.clock: the addressing-mode function has run (am); run the handler and
\* add both extra-cycle counts to the cycles still to burn
RunOperation(am, name) ==
    LET Account(op) ==
          IF op.m.thrown THEN op.m
          ELSE [op.m EXCEPT !.cpu.cycles = @ + (am.cycles + op.ret)]
    IN  Account(handler(am.m, name))

\* CPU.clock: the opcode has been fetched (rd); look the operation up, set
\* the unused flag and the base cycle count, and run the operation.  A fetch
\* that yields no byte leaves the lookup undefined and the call throws.
ExecuteOpcode(rd) ==
    IF rd.data = Undef
    THEN [rd.m EXCEPT !.cpu.opcode = rd.data, !.thrown = TRUE]
    ELSE RunOperation(
           execAddrModeFunc([rd.m EXCEPT !.cpu.opcode = rd.data,
                                         !.cpu.PS = setBit(@, 5, U8),
                                         !.cpu.cycles = operations[rd.data + 1].cycles],
                            operations[rd.data + 1].addrMode),
           operations[rd.data + 1].name)

\* CPU.fetchNextOpcode followed by the table lookup and the operation itself:
\* the body of "if (this.cycles === 0)" in CPU.clock
Execute(m) == ExecuteOpcode(ReadOperandByte(m))

\* CPU.clock
CPUclock(m) ==
    LET Count(m1) ==
          IF m1.thrown THEN m1
          ELSE [m1 EXCEPT !.cpu.cycles = @ - 1, !.cpu.internalClock = @ + 1]
    IN  Count(IF m.cpu.cycles = 0 THEN Execute(m) ELSE m)

\* Bus.reset
BusReset(m) ==
    [CPUreset(m) EXCEPT !.ppu = PPUreset(@)]

\* faulty variant of Bus.clock: the CPU is ticked every second call
BusClockStepHalf(m) ==
    LET tk == m.bus.systemClock % 2 = 0
        ft == tk /\ m.cpu.cycles = 0
        t2 == <<"ppu.clock">> \o (IF tk THEN <<"cpu.clock">> ELSE <<>>)
        m1 == [m EXCEPT !.ppu = PPUclock(m.ppu, m.rom)]
        AfterCPU(m2) ==
          IF m2.thrown
          THEN [m |-> m2, trace |-> t2, entry |-> m2.cpu, edge |-> FALSE, fetch |-> ft]
          ELSE [m |-> [(IF m2.ppu.nmi THEN CPUNMI([m2 EXCEPT !.ppu.nmi = FALSE])
                        ELSE m2) EXCEPT !.bus.systemClock = @ + 1],
                trace |-> t2 \o (IF m2.ppu.nmi THEN <<"cpu.NMI">> ELSE <<>>),
                entry |-> m2.cpu, edge |-> m2.ppu.nmi, fetch |-> ft]
    IN  AfterCPU(IF tk THEN CPUclock(m1) ELSE m1)

\* Bus.clock: [m |-> the machine afterwards, trace |-> the component calls it
\* made, in order, entry |-> the CPU registers once cpu.clock was over (the
\* state cpu.NMI is entered in), edge |-> whether ppu.nmi was found set,
\* fetch |-> whether cpu.clock fetched an opcode]
BusClockStep(m) ==
    LET tk == m.bus.systemClock % 3 = 0
        ft == tk /\ m.cpu.cycles = 0
        t2 == <<"ppu.clock">> \o (IF tk THEN <<"cpu.clock">> ELSE <<>>)
        m1 == [m EXCEPT !.ppu = PPUclock(m.ppu, m.rom)]
        AfterCPU(m2) ==
          IF m2.thrown
          THEN [m |-> m2, trace |-> t2, entry |-> m2.cpu, edge |-> FALSE, fetch |-> ft]
          ELSE [m |-> [(IF m2.ppu.nmi THEN CPUNMI([m2 EXCEPT !.ppu.nmi = FALSE])
                        ELSE m2) EXCEPT !.bus.systemClock = @ + 1],
                trace |-> t2 \o (IF m2.ppu.nmi THEN <<"cpu.NMI">> ELSE <<>>),
                entry |-> m2.cpu, edge |-> m2.ppu.nmi, fetch |-> ft]
    IN  AfterCPU(IF tk THEN CPUclock(m1) ELSE m1)

---------------------------------------------------------------------------
(* Cartridges and the host (preload.ts)                                    *)

\* a byte array given as <<offset, byte>> pairs, zero elsewhere
ImageOf(pairs) ==
    [k \in {pairs[i][1] : i \in DOMAIN pairs} |->
        pairs[CHOOSE i \in DOMAIN pairs : pairs[i][1] = k][2]]

\* A 32 KiB NROM cartridge with CHR-ROM and horizontal mirroring.  The
\* program at 0x8010 enables the vertical-blank NMI, then loops polling
\* PPUSTATUS and pulling the value read into the status register; the NMI
\* handler at 0x8030 is a lone RTI.
\*   8000 NOP
\*   8010 NOP NOP NOP NOP NOP
\*   8015 LDA #$80 / STA $2000
\*   801A LDA $2002 / PHA / PLP / JMP $801A
\*   8030 RTI
\*   FFFA 8030, FFFC 8010, FFFE 8030
CartA ==
    NewROM(2, 1, "HORIZONTAL",
           ImageOf(<< <<0, 234>>,
                      <<16, 234>>, <<17, 234>>, <<18, 234>>, <<19, 234>>, <<20, 234>>,
                      <<21, 169>>, <<22, 128>>, <<23, 141>>, <<24, 0>>, <<25, 32>>,
                      <<26, 173>>, <<27, 2>>, <<28, 32>>, <<29, 72>>, <<30, 40>>,
                      <<31, 76>>, <<32, 26>>, <<33, 128>>,
                      <<48, 64>>,
                      <<32762, 48>>, <<32763, 128>>, <<32764, 16>>, <<32765, 128>>,
                      <<32766, 48>>, <<32767, 128>> >>),
           ImageOf(<< <<1, 255>>, <<9, 129>> >>))

\* A 16 KiB NROM cartridge with CHR-RAM (no CHR-ROM banks) and vertical
\* mirroring: the vectors at the top of its single bank point at 0x8010,
\* where a JMP to itself sits.
\*   8010 JMP $8010
\*   FFFA 8010, FFFC 8010, FFFE 8010  (offsets 3FFA..3FFF of the bank)
CartB ==
    NewROM(1, 0, "VERTICAL",
           ImageOf(<< <<16, 76>>, <<17, 16>>, <<18, 128>>,
                      <<16378, 16>>, <<16379, 128>>, <<16380, 16>>, <<16381, 128>>,
                      <<16382, 16>>, <<16383, 128>> >>),
           EmptyMem)

Carts == {CartA, CartB}

\* new Bus(); bus.connectRom(rom); bus.connectDisplay(display)
Connected(cart) ==
    [bus |-> NewBus, cpu |-> NewCPU, ppu |-> NewPPU, rom |-> cart,
     thrown |-> FALSE, reads |-> {}]

\* the machine held in the variables, entering a call
Machine ==
    [bus |-> bus, cpu |-> cpu, ppu |-> ppu, rom |-> rom, thrown |-> FALSE, reads |-> {}]

NoCall ==
    [op |-> "none", address |-> 0, data |-> 0, entry |-> NewCPU,
     edge |-> FALSE, fetch |-> FALSE, reads |-> {}]

NoLatch == [byte |-> 0, reads |-> 0, valid |-> FALSE]

\* the variables after a call that leaves machine m
Becomes(m) ==
    /\ bus' = m.bus
    /\ cpu' = m.cpu
    /\ ppu' = m.ppu
    /\ rom' = m.rom
    /\ threw' = m.thrown

\* the variables once the emulator stands in machine m, no call made yet
Starts(m, op) ==
    /\ bus = m.bus
    /\ cpu = m.cpu
    /\ ppu = m.ppu
    /\ rom = m.rom
    /\ threw = FALSE
    /\ call = [NoCall EXCEPT !.op = op]
    /\ ret = 0
    /\ ev = <<>>
    /\ edges = 0
    /\ nmis = 0
    /\ latched = NoLatch
    /\ clocks = 0
    /\ fetches = 0
    /\ ops = 0

\* preload.ts start-up: construct, connect the cartridge, bus.reset()
Boot(cart) == Starts(BusReset(Connected(cart)), "reset")

\* one bus.clock() call
ClockCall ==
    LET Done(step) ==
          LET took == \E i \in DOMAIN step.trace : step.trace[i] = "cpu.NMI"
              cpuc == \E i \in DOMAIN step.trace : step.trace[i] = "cpu.clock"
          IN  /\ Becomes(step.m)
              /\ ev' = step.trace
              /\ call' = [NoCall EXCEPT !.op = "clock", !.entry = step.entry,
                                        !.edge = step.edge, !.fetch = step.fetch,
                                        !.reads = step.m.reads]
              /\ ret' = 0
              /\ edges' = edges + (IF ~ppu.frameComplete /\ step.m.ppu.frameComplete
                                   THEN 1 ELSE 0)
              /\ nmis' = nmis + (IF took THEN 1 ELSE 0)
              /\ clocks' = clocks + (IF cpuc /\ ~step.m.thrown THEN 1 ELSE 0)
              /\ fetches' = fetches + (IF step.fetch THEN 1 ELSE 0)
              /\ UNCHANGED <<latched, ops>>
    IN  Done(BusClockStep(Machine))

\* ticks of the master clock explored: one frame and a little more
MaxTicks == 90000

\* preload.ts update(): one bus.clock() of "do bus.clock() while (!frameComplete)"
Clock ==
    /\ ~threw
    /\ ~ppu.frameComplete
    /\ bus.systemClock < MaxTicks
    /\ ClockCall

\* preload.ts update(): "bus.ppu.frameComplete = false" once the loop ends
FrameEnd ==
    /\ ~threw
    /\ ppu.frameComplete
    /\ ppu' = [ppu EXCEPT !.frameComplete = FALSE]
    /\ call' = [NoCall EXCEPT !.op = "frameEnd"]
    /\ nmis' = 0
    /\ ev' = <<>>
    /\ ret' = 0
    /\ UNCHANGED <<bus, cpu, rom, threw, edges, latched, clocks, fetches, ops>>

Init == \E cart \in Carts : Boot(cart)

Next == Clock \/ FrameEnd

\* the emulator running a cartridge frame by frame
Spec == Init /\ [][Next]_vars

---------------------------------------------------------------------------
(* Claims settled under Spec                                               *)

\* whether the last Bus.clock call made the named component call
Made(name) == \E i \in DOMAIN ev : ev[i] = name

\* PPUSTATUS.V, the vertical-blank flag, of PPU p
VFlag(p) == getBit(p.PPUSTATUS, 7)

\* PPUCTRL.generate_nmi of PPU p
GenNMI(p) == getBit(p.PPUCTRL, 7)

\* whether one of the addresses in set S is a CPU address of PPUSTATUS
ReadsStatus(S) == \E a \in S : isInRange(a, 8192, 16383) /\ And(a, 7) = 2

\* C1: every Bus.clock call that returns has ticked the PPU exactly once and
\* first, has ticked the CPU exactly when the master clock it started at is
\* a multiple of three (so in one of every three consecutive calls, the CPU
\* having been ticked ceil(n / 3) times after n calls), has delivered the
\* NMI last and exactly when the PPU's edge was found set, and has left the
\* edge clear.
C1_ClockOrder ==
    (call.op = "clock" /\ ~threw) =>
        /\ ev \in { <<"ppu.clock">>, <<"ppu.clock", "cpu.clock">>,
                    <<"ppu.clock", "cpu.NMI">>,
                    <<"ppu.clock", "cpu.clock", "cpu.NMI">> }
        /\ Made("cpu.clock") <=> (bus.systemClock - 1) % 3 = 0
        /\ clocks = (bus.systemClock + 2) \div 3
        /\ cpu.internalClock = clocks
        /\ Made("cpu.NMI") <=> call.edge
        /\ ~ppu.nmi

\* a Bus.clock call that found the edge set, cleared it and ended with
\* cpu.NMI: the CPU stands at the handler with its eight cycles to burn
C1_Witness ==
    /\ call.op = "clock"
    /\ ev[Len(ev)] = "cpu.NMI"
    /\ call.edge
    /\ ~ppu.nmi
    /\ cpu.cycles = 8

\* C2: with rendering disabled, n Bus.clock calls after reset leave the PPU
\* at dot n mod 341 of scanline (n div 341) mod 262 (every scanline lasts 341
\* ticks); so 89,342 = 262 x 341 calls leave it at dot 0 of scanline 0 with
\* exactly one rise of frameComplete seen.
C2_FrameLength ==
    (call.op \in {"reset", "clock", "frameEnd"} /\ ~Rendering(ppu) /\ ~threw) =>
        /\ ppu.cycle = bus.systemClock % 341
        /\ (IF ppu.scanline = -1 THEN 261 ELSE ppu.scanline)
               = (bus.systemClock \div 341) % 262
        /\ bus.systemClock = 89342 =>
               (edges = 1 /\ ppu.cycle = 0 /\ ppu.scanline = 0)

\* C3, as a condition on every step: V rises only in the tick entered at
\* scanline 241 dot 1; the tick entered at dot 1 of the pre-render scanline
\* leaves V clear; V falls only in that tick or when the CPU read PPUSTATUS
\* in the call; the NMI edge is found set, and the CPU interrupted, only in
\* the tick entered at scanline 241 dot 1 with generate_nmi set; no frame
\* sees a second NMI.
C3_Step ==
    /\ (VFlag(ppu) = 0 /\ VFlag(ppu') = 1) =>
           (call'.op = "clock" /\ ppu.scanline = 241 /\ ppu.cycle = 1)
    /\ (call'.op = "clock" /\ ppu.scanline = -1 /\ ppu.cycle = 1
          /\ ~ReadsStatus(call'.reads)) => VFlag(ppu') = 0
    /\ (call'.op = "clock" /\ ppu.scanline = 241 /\ ppu.cycle = 1
          /\ ~ReadsStatus(call'.reads)) => VFlag(ppu') = 1
    /\ (VFlag(ppu) = 1 /\ VFlag(ppu') = 0) =>
           /\ call'.op = "clock"
           /\ ((ppu.scanline = -1 /\ ppu.cycle = 1) \/ ReadsStatus(call'.reads))
    /\ (call'.op = "clock" /\ (call'.edge \/ nmis' > nmis)) =>
           (ppu.scanline = 241 /\ ppu.cycle = 1 /\ GenNMI(ppu) = 1)
    /\ (call'.op = "clock" /\ ppu.scanline = 241 /\ ppu.cycle = 1 /\ GenNMI(ppu) = 1) =>
           (call'.edge /\ nmis' = nmis + 1)
    /\ nmis' > nmis => call'.edge
    /\ nmis' <= 1

C3_VBlankAndNMI == [][C3_Step]_vars

\* the tick that entered vertical blank with generate_nmi set: V is up and
\* the frame's one NMI has been delivered
C3_Witness ==
    /\ nmis = 1
    /\ VFlag(ppu) = 1
    /\ GenNMI(ppu) = 1
    /\ ppu.scanline = 241
    /\ ppu.cycle = 2

\* the byte the stack page holds at stack pointer sp
StackAt(sp) == MemGet(bus.cpuRAM, And(256 + (sp % U8), 2047))

\* the little-endian word the bus holds at a and a + 1 (cartridge space)
WordAt(a) ==
    Store(Or(Shl(BusDebugRead(Machine, a + 1).data, 8),
             BusDebugRead(Machine, a).data), U16)

\* C4: a Bus.clock call that ended with cpu.NMI, entered with the registers
\* call.entry, has pushed PC high, PC low and a status byte with B = 0,
\* bit 5 = 1 and I = 1 at 0x0100 | SP, SP - 1, SP - 2, has lowered SP by
\* three, loaded PC from 0xFFFA/0xFFFB and set eight cycles to burn.
C4_NMIEntry ==
    (call.op = "clock" /\ call.edge /\ ~threw) =>
        LET e == call.entry
        IN  /\ StackAt(e.SP) = And(Shr(e.PC, 8), 255)
            /\ StackAt(e.SP - 1) = And(e.PC, 255)
            /\ getBit(StackAt(e.SP - 2), 4) = 0
            /\ getBit(StackAt(e.SP - 2), 5) = 1
            /\ getBit(StackAt(e.SP - 2), 2) = 1
            /\ cpu.SP = (e.SP - 3) % U8
            /\ cpu.PC = WordAt(65530)
            /\ cpu.cycles = 8

---------------------------------------------------------------------------
(* The bus driven call by call: bus.clock() and bus.reset() in any order    *)

\* master-clock ticks explored
MaxShort == 60

\* presses of the reset button explored
MaxResets == 1

\* one bus.clock() call
Tick ==
    /\ ~threw
    /\ bus.systemClock < MaxShort
    /\ ClockCall

\* the reset button: bus.reset()
Reset ==
    /\ ~threw
    /\ ops < MaxResets
    /\ Becomes(BusReset(Machine))
    /\ call' = [NoCall EXCEPT !.op = "reset", !.entry = cpu]
    /\ ret' = 0
    /\ ev' = <<>>
    /\ clocks' = 0
    /\ fetches' = 0
    /\ ops' = ops + 1
    /\ UNCHANGED <<edges, nmis, latched>>

NextReset == Tick \/ Reset

SpecReset == Init /\ [][NextReset]_vars

---------------------------------------------------------------------------
(* The bus as the CPU and the debugger use it: reads, writes, debug reads   *)

\* calls explored from each start
MaxOps == 3

\* CPU addresses exercised: RAM and its mirrors, PPU registers and a mirror,
\* the APU and controller ports, unmapped space, PRG-ROM in both halves
BusAddrs ==
    { 0, 2047, 4095, 8191,
      8194, 8198, 8199, 8202,
      16384, 16406, 16407, 20480,
      32768, 32784, 49168, 65532 }

\* addresses written, and the bytes written to them
WriteAddrs == { 2047, 4095, 8191, 8198, 16406 }

Bytes == { 170, 33 }

\* host controller bytes: A + Right, and a pattern with no symmetry
Pads == { 129, 90 }

\* a Bus.read by the CPU
CpuRead(a) ==
    LET rd == BusRead(Machine, a)
    IN  /\ Becomes(rd.m)
        /\ ret' = rd.data
        /\ call' = [NoCall EXCEPT !.op = "read", !.address = a, !.entry = cpu,
                                  !.reads = rd.m.reads]
        /\ latched' = IF a = 16406 THEN [latched EXCEPT !.reads = @ + 1] ELSE latched
        /\ ev' = <<>>
        /\ ops' = ops + 1
        /\ UNCHANGED <<edges, nmis, clocks, fetches>>

\* a Bus.write by the CPU
CpuWrite(a, v) ==
    /\ Becomes(BusWrite(Machine, a, v))
    /\ ret' = 0
    /\ call' = [NoCall EXCEPT !.op = "write", !.address = a, !.data = v, !.entry = cpu]
    /\ latched' = IF a = 16406
                  THEN [byte |-> bus.controller[1], reads |-> 0, valid |-> TRUE]
                  ELSE latched
    /\ ev' = <<>>
    /\ ops' = ops + 1
    /\ UNCHANGED <<edges, nmis, clocks, fetches>>

\* a Bus.debugRead by the disassembler
DebugRead(a) ==
    LET rd == BusDebugRead(Machine, a)
    IN  /\ Becomes(rd.m)
        /\ ret' = rd.data
        /\ call' = [NoCall EXCEPT !.op = "debugRead", !.address = a, !.entry = cpu]
        /\ ev' = <<>>
        /\ ops' = ops + 1
        /\ UNCHANGED <<edges, nmis, latched, clocks, fetches>>

\* a PPU.debugRead by the register display
PpuDebugRead(r) ==
    LET rd == PPUdebugRead(ppu, r)
    IN  /\ ppu' = rd.ppu
        /\ ret' = rd.data
        /\ call' = [NoCall EXCEPT !.op = "ppu.debugRead", !.address = r, !.entry = cpu]
        /\ ev' = <<>>
        /\ ops' = ops + 1
        /\ UNCHANGED <<bus, cpu, rom, threw, edges, nmis, latched, clocks, fetches>>

\* the host stores the pad's byte: bus.controller[0] = c
SetController(c) ==
    /\ bus' = [bus EXCEPT !.controller[1] = c]
    /\ ret' = 0
    /\ call' = [NoCall EXCEPT !.op = "input", !.data = c, !.entry = cpu]
    /\ ev' = <<>>
    /\ ops' = ops + 1
    /\ UNCHANGED <<cpu, ppu, rom, threw, edges, nmis, latched, clocks, fetches>>

\* the emulator once the cartridge is connected (when the disassembler
\* runs), or once bus.reset() has run
InitBus == \E cart \in Carts : Starts(Connected(cart), "new") \/ Boot(cart)

NextBus ==
    \/ ops < MaxOps /\ \E a \in BusAddrs : CpuRead(a)
    \/ ops < MaxOps /\ \E a \in WriteAddrs, v \in Bytes : CpuWrite(a, v)
    \/ ops < MaxOps /\ \E a \in BusAddrs : DebugRead(a)
    \/ ops < MaxOps /\ \E r \in 0 .. 7 : PpuDebugRead(r)
    \/ ops < MaxOps /\ \E c \in Pads : SetController(c)

SpecBus == InitBus /\ [][NextBus]_vars

\* the PRG-ROM byte at offset k of the connected cartridge
PrgAt(k) == ArrGet(rom.PRGROMData, rom.PRGLength, k)

\* C6: a Bus.read of an address in 0x8000-0xFFFF returns the PRG-ROM byte at
\* the offset the mapper gives for the address, offset 0 included.
C6_PrgRead ==
    (call.op = "read" /\ isInRange(call.address, 32768, 65535)) =>
        ret = PrgAt(cpuMapRead(rom, call.address))

\* C7: the mapper's offset for an address in 0x8000-0xFFFF is the address
\* masked with 0x3FFF for a one-bank cartridge and with 0x7FFF otherwise; so
\* on a one-bank cartridge a Bus.read returns a byte of the PRG-ROM array,
\* the same byte as the read of the address with bit 14 flipped.
C7_PrgMask ==
    (call.op = "read" /\ isInRange(call.address, 32768, 65535)) =>
        /\ cpuMapRead(rom, call.address)
              = And(call.address, IF rom.PRG_ROM_size > 1 THEN 32767 ELSE 16383)
        /\ cpuMapRead(rom, call.address) < rom.PRGLength
        /\ rom.PRG_ROM_size = 1 =>
               /\ ret # Undef
               /\ ret = BusRead(Machine, Xor(call.address, 16384)).data

\* C8: once a byte has been written to an address below 0x2000, a Bus.read
\* of any of the four addresses that agree with it modulo 0x0800 returns the
\* byte; and a Bus.read below 0x2000 returns the cell addr & 0x07FF.
C8_RamMirrors ==
    /\ (call.op = "write" /\ call.address < 8192) =>
           \A k \in 0 .. 3 :
               BusRead(Machine, And(call.address, 2047) + 2048 * k).data = call.data
    /\ (call.op = "read" /\ call.address < 8192) =>
           \A k \in 0 .. 3 :
               ret = BusRead(Machine, And(call.address, 2047) + 2048 * k).data

\* 0xAA written to 0x07FF and since read back at 0x1FFF
C8_Witness ==
    /\ call.op = "read"
    /\ call.address = 8191
    /\ ret = 170
    /\ MemGet(bus.cpuRAM, 2047) = 170

\* C10, as a condition on every step: a Bus.debugRead or PPU.debugRead
\* leaves the bus, the CPU, the PPU and the cartridge as they were; a
\* Bus.debugRead of a RAM or cartridge address returns what Bus.read
\* returns.
C10_Step ==
    /\ call'.op \in {"debugRead", "ppu.debugRead"} =>
           (bus' = bus /\ cpu' = cpu /\ ppu' = ppu /\ rom' = rom /\ ~threw')
    /\ (call'.op = "debugRead"
          /\ (call'.address < 8192 \/ isInRange(call'.address, 32768, 65535))) =>
           ret' = BusRead(Machine, call'.address).data

C10_DebugReadsPure == [][C10_Step]_vars

\* a debug read of PPUSTATUS made with V up and the write toggle set: both
\* are as they were
C10_Witness ==
    /\ call.op = "debugRead"
    /\ call.address = 8194
    /\ ret = 128
    /\ VFlag(ppu) = 1
    /\ ppu.w = 1

---------------------------------------------------------------------------
(* The controller port                                                     *)

\* calls explored: a byte set, latched, changed, and eight reads
MaxPadOps == 11

PadAddrs == { 16406, 16407 }

NextPad ==
    \/ ops < MaxPadOps /\ \E c \in Pads : SetController(c)
    \/ ops < MaxPadOps /\ \E a \in PadAddrs : CpuWrite(a, 1)
    \/ ops < MaxPadOps /\ \E a \in PadAddrs : CpuRead(a)

SpecPad == Init /\ [][NextPad]_vars

---------------------------------------------------------------------------
(* The bus used before and after a cartridge is connected                  *)

\* calls explored from each start
MaxBareOps == 2

\* new Bus(): no cartridge connected yet
Unconnected ==
    [bus |-> NewBus, cpu |-> NewCPU, ppu |-> NewPPU, rom |-> NoROM,
     thrown |-> FALSE, reads |-> {}]

\* CPU addresses exercised: RAM, a PPU register, the ends of the disabled
\* APU/IO range, the ends of the range below PRG-ROM, and PRG-ROM
BareAddrs == { 0, 8194, 16408, 16415, 16416, 24576, 32767, 32784, 65532 }

\* the bus as constructed, or with either cartridge connected
InitBare ==
    \/ Starts(Unconnected, "new")
    \/ \E cart \in Carts : Starts(Connected(cart), "new")

NextBare ==
    \/ ops < MaxBareOps /\ ~threw /\ \E a \in BareAddrs : CpuRead(a)
    \/ ops < MaxBareOps /\ ~threw /\ \E a \in BareAddrs, v \in Bytes : CpuWrite(a, v)

SpecBare == InitBare /\ [][NextBare]_vars

\* whether no device claims CPU address a (NROM): 0x4018-0x7FFF
Unclaimed(a) == isInRange(a, 16408, 32767)

\* C11, as a condition on every step: a Bus.read or Bus.write raises no
\* error, with or without a cartridge; a read of an address no device
\* claims returns 0 and a write to one changes nothing.
C11_Step ==
    /\ call'.op \in {"read", "write"} => ~threw'
    /\ (call'.op = "read" /\ Unclaimed(call'.address)) => ret' = 0
    /\ (call'.op = "write" /\ Unclaimed(call'.address)) =>
           (bus' = bus /\ cpu' = cpu /\ ppu' = ppu /\ rom' = rom)

C11_NeverFails == [][C11_Step]_vars

---------------------------------------------------------------------------
(* The PPU's register ports as the CPU drives them through the bus; ev     *)
(* keeps the calls made so far: [op, reg, val (the byte written or         *)
(* returned), w (the write toggle the call found)]                         *)

\* a Bus.read of PPU register r (0x2000 + r)
RegRead(r) ==
    LET Done(rd) ==
          /\ Becomes(rd.m)
          /\ ret' = rd.data
          /\ call' = [NoCall EXCEPT !.op = "read", !.address = 8192 + r,
                                    !.entry = cpu, !.reads = rd.m.reads]
          /\ ev' = Append(ev, [op |-> "read", reg |-> r, val |-> rd.data, w |-> ppu.w])
          /\ ops' = ops + 1
          /\ UNCHANGED <<edges, nmis, latched, clocks, fetches>>
    IN  Done(BusRead(Machine, 8192 + r))

\* a Bus.write of byte v to PPU register r (0x2000 + r)
RegWrite(r, v) ==
    /\ Becomes(BusWrite(Machine, 8192 + r, v))
    /\ ret' = 0
    /\ call' = [NoCall EXCEPT !.op = "write", !.address = 8192 + r, !.data = v,
                              !.entry = cpu]
    /\ ev' = Append(ev, [op |-> "write", reg |-> r, val |-> v, w |-> ppu.w])
    /\ ops' = ops + 1
    /\ UNCHANGED <<edges, nmis, latched, clocks, fetches>>

\* calls explored from each start
MaxRegOps == 4

\* scroll bytes, address bytes and a control byte
ScrollBytes == { 125, 255 }
AddrBytes == { 63, 33 }
CtrlBytes == { 3 }

NextRegs ==
    \/ ops < MaxRegOps /\ RegRead(2)
    \/ ops < MaxRegOps /\ \E v \in CtrlBytes : RegWrite(0, v)
    \/ ops < MaxRegOps /\ \E v \in ScrollBytes : RegWrite(5, v)
    \/ ops < MaxRegOps /\ \E v \in AddrBytes : RegWrite(6, v)

SpecRegs == InitBus /\ [][NextRegs]_vars

\* whether history entry e is a write to PPUSCROLL or PPUADDR
TwiceWritten(e) == e.op = "write" /\ e.reg \in {5, 6}

\* C12, as a condition on every step: a Bus.read of PPUSTATUS returns
\* (status & 0xE0) | (PPUDATA & 0x1F) and leaves the PPU as it was but for V
\* and w, both cleared; and a PPUSCROLL/PPUADDR write that follows a
\* PPUSTATUS read that followed one PPUSCROLL/PPUADDR write finds w = 0 and
\* acts as a first write (w becomes 1, v is untouched, PPUSCROLL sets fine X,
\* PPUADDR sets bits 8-13 of t).
C12_Step ==
    /\ (call'.op = "read" /\ call'.address = 8194) =>
           /\ ret' = Or(And(ppu.PPUSTATUS, 224), And(ppu.PPUDATA, 31))
           /\ ppu' = [ppu EXCEPT !.PPUSTATUS = And(@, 127), !.w = 0]
           /\ bus' = bus /\ cpu' = cpu /\ rom' = rom
    /\ LET h == ev'
           n == Len(h)
       IN  (n >= 3 /\ TwiceWritten(h[n]) /\ h[n - 1].op = "read" /\ h[n - 1].reg = 2
              /\ TwiceWritten(h[n - 2])) =>
               /\ ppu.w = 0
               /\ ppu'.w = 1
               /\ ppu'.vReg = ppu.vReg
               /\ h[n].reg = 5 => ppu'.fineX = And(h[n].val, 7)
               /\ h[n].reg = 6 => And(Shr(ppu'.tReg, 8), 255) = And(h[n].val, 63)

C16_Step ==
    /\ (call'.op = "write" /\ call'.address = 8197 /\ ppu.w = 0) =>
          ppu' = [ppu EXCEPT !.tReg = Or(And(ppu.tReg, 65504), Shr(call'.data, 3)),
                             !.fineX = And(call'.data, 7),
                             !.w = 1]
    /\ (call'.op = "write" /\ call'.address = 8197 /\ ppu.w = 1) =>
          ppu' = [ppu EXCEPT !.tReg = Or(And(ppu.tReg, 35871),
                                         Or(Shl(Shr(call'.data, 3), 5),
                                            Shl(And(call'.data, 7), 12))),
                             !.w = 0]

C16_ScrollPair == [][C16_Step]_vars

\* 0x7D then 0xFF written to PPUSCROLL after reset, and t still 0
ScrollLost ==
    /\ Len(ev) = 2
    /\ ev[1] = [op |-> "write", reg |-> 5, val |-> 125, w |-> 0]
    /\ ev[2] = [op |-> "write", reg |-> 5, val |-> 255, w |-> 1]
    /\ ppu.fineX = 5
    /\ ppu.w = 0
    /\ ppu.tReg = 0

\* what PPUSCROLL writes do keep: fine X, the toggle, v and the other fields
ScrollKeepsRest ==
    [][(call'.op = "write" /\ call'.address = 8197) =>
         [ppu' EXCEPT !.tReg = 0] =
            [ppu EXCEPT !.tReg = 0, !.w = 1 - ppu.w,
                        !.fineX = IF ppu.w = 0 THEN And(call'.data, 7) ELSE @]]_vars

---------------------------------------------------------------------------
(* PPUADDR and PPUDATA: the CPU's window on the PPU's memory               *)

\* calls explored from each start
MaxPortOps == 7

\* PPUADDR bytes (0x0001 and 0x0101 in the pattern tables, 0x21xx in the
\* nametables, 0x3Fxx in the palette) and the PPUDATA byte
PortAddrBytes == { 0, 1, 33, 255 }
PortDataBytes == { 42 }

InitPort == \E cart \in Carts : Boot(cart)

NextPort ==
    \/ ops < MaxPortOps /\ RegRead(7)
    \/ ops < MaxPortOps /\ \E v \in PortAddrBytes : RegWrite(6, v)
    \/ ops < MaxPortOps /\ \E v \in PortDataBytes : RegWrite(7, v)

SpecPort == InitPort /\ [][NextPort]_vars

\* whether entries i and i + 1 of history h are the two PPUADDR writes of a pair
AddrPair(h, i) ==
    /\ i >= 1
    /\ h[i].op = "write" /\ h[i].reg = 6 /\ h[i].w = 0
    /\ h[i + 1].op = "write" /\ h[i + 1].reg = 6

\* the address such a pair sets
PairAddr(h, i) == Or(Shl(And(h[i].val, 63), 8), h[i + 1].val)

\* whether entry i of history h is a PPUDATA read
DataRead(h, i) == i >= 1 /\ h[i].op = "read" /\ h[i].reg = 7

\* the byte the PPU's memory holds at a non-palette address: CHR-ROM when the
\* cartridge has banks of it, else the pattern RAM; the nametable RAM above
StoredAt(p, r, A) ==
    IF A <= 8191
    THEN (IF r.CHR_ROM_size > 0 THEN MemGet(r.CHRROMData, A)
          ELSE MemGet(p.patternTable[IF A < 4096 THEN 1 ELSE 2], And(A, 4095)))
    ELSE MemGet(p.nametables[NametableBank(r.mirroring, And(A, 4095))], And(A, 1023))

\* the first PPUDATA read after an address pair returns the buffer as it was
\* and refills it from ppuRead(A)
FirstReadBuffered ==
    LET h == ev'
        n == Len(h)
    IN  (DataRead(h, n) /\ AddrPair(h, n - 2) /\ PairAddr(h, n - 2) < 16128) =>
            /\ ppu.vReg = PairAddr(h, n - 2)
            /\ ret' = ppu.PPUDATA
            /\ ppu'.PPUDATA = Store(ppuRead(ppu, rom, PairAddr(h, n - 2)), U8)

\* the second PPUDATA read after an address pair returns the byte at A
SecondReadFresh(lowest) ==
    LET h == ev'
        n == Len(h)
    IN  (DataRead(h, n) /\ DataRead(h, n - 1) /\ AddrPair(h, n - 3)
           /\ PairAddr(h, n - 3) < 16128 /\ PairAddr(h, n - 3) >= lowest) =>
            ret' = StoredAt(ppu', rom', PairAddr(h, n - 3))

\* C13: after two PPUADDR writes set v to an address A below 0x3F00, the
\* first PPUDATA read returns the buffer's earlier contents and refills the
\* buffer from ppuRead(A), and the second PPUDATA read returns the byte
\* stored at A.
C13_DelayedRead == [][FirstReadBuffered /\ SecondReadFresh(0)]_vars

\* the same for the nametable addresses, 0x2000 and above
DelayedReadAbovePatterns == [][FirstReadBuffered /\ SecondReadFresh(8192)]_vars

\* 42 written through PPUDATA to 0x0001 of a cartridge without CHR banks,
\* and the second read after setting the address again returns 0
PatternByteLost ==
    /\ Len(ev) = 7
    /\ rom.CHR_ROM_size = 0
    /\ AddrPair(ev, 4) /\ PairAddr(ev, 4) = 1
    /\ DataRead(ev, 6) /\ DataRead(ev, 7)
    /\ StoredAt(ppu, rom, 1) = 42
    /\ ret = 0

\* C14: a PPUDATA read with v in 0x3F00-0x3FFF returns the palette byte at v
\* at once, not the read buffer.
C14_Step ==
    (call'.op = "read" /\ call'.address = 8199 /\ isInRange(ppu.vReg, 16128, 16383)) =>
        ret' = And(MemGet(ppu.paletteTable, PaletteIndex(ppu.vReg)),
                   IF getBit(ppu.PPUMASK, 0) # 0 THEN 48 ELSE 63)

C14_PaletteUnbuffered == [][C14_Step]_vars

\* 42 stored in palette entry 0 and a PPUDATA read at 0x3F00 that returned 0
PaletteReadStale ==
    /\ Len(ev) = 6
    /\ AddrPair(ev, 4) /\ PairAddr(ev, 4) = 16128
    /\ DataRead(ev, 6)
    /\ MemGet(ppu.paletteTable, 0) = 42
    /\ ret = 0

\* C15, as a condition on every step: a PPUADDR write that finds w = 0 puts
\* val & 0x3F in bits 8-13 of t, clears bits 14-15, keeps t's low byte and v,
\* and sets w = 1; the write after it leaves t = v = ((hi & 0x3F) << 8) | lo
\* and w = 0.  Nothing else of the PPU changes.
C15_Step ==
    LET h == ev'
        n == Len(h)
    IN  /\ (call'.op = "write" /\ call'.address = 8198 /\ ppu.w = 0) =>
              /\ ppu' = [ppu EXCEPT !.tReg = Or(Shl(And(call'.data, 63), 8), And(ppu.tReg, 255)),
                                    !.w = 1]
              /\ ppu'.vReg = ppu.vReg
              /\ And(ppu'.tReg, 255) = And(ppu.tReg, 255)
              /\ And(ppu'.tReg, 49152) = 0
        /\ (n >= 2 /\ AddrPair(h, n - 1)) =>
              /\ ppu'.tReg = PairAddr(h, n - 1)
              /\ ppu'.vReg = PairAddr(h, n - 1)
              /\ ppu'.w = 0
              /\ ppu' = [ppu EXCEPT !.tReg = PairAddr(h, n - 1), !.vReg = PairAddr(h, n - 1),
                                    !.w = 0]

C15_AddrPair == [][C15_Step]_vars

\* 0xFF then 0x01 written to PPUADDR over t = v = 0x2100: the pair has set
\* t = v = 0x3F01
C15_Witness ==
    /\ Len(ev) = 4
    /\ AddrPair(ev, 1) /\ PairAddr(ev, 1) = 8448
    /\ AddrPair(ev, 3) /\ ev[3].val = 255 /\ ev[4].val = 1
    /\ ppu.tReg = 16129
    /\ ppu.vReg = 16129
    /\ ppu.w = 0

---------------------------------------------------------------------------
(* Register.storeBits and getBits on their own: latched holds a register   *)
(* (its modulus W and its cell), call the arguments of the last storeBits, *)
(* ret what getBits then returns for the same field                        *)

\* Register.storeBits of the second Register source (part_006), the class
\* with getRegisterValue/setRegister
storeBitsPart006(d, val, pos, width, W) ==
    LET ones    == Shl(1, width) - 1
        v       == And(val, ones)
        cleared == Store(And(d, Not(Shl(ones, pos))), W)
    IN  Store(Or(cleared, Shl(v, pos)), W)

\* storeBits calls made on one register
MaxStoreOps == 1

\* register moduli (8 and 16 bits), initial contents, stored values
RegModuli == { U8, U16 }
RegContents == { 0, 65535, 42435 }
StoreValues == { 0, 5, 255, 43981 }

\* the bits of an 8- or 16-bit register
BitsOf(W) == IF W = U8 THEN 8 ELSE 16

InitStore ==
    /\ \E W \in RegModuli, d \in RegContents : latched = [W |-> W, data |-> d % W]
    /\ bus = NewBus /\ cpu = NewCPU /\ ppu = NewPPU /\ rom = NoROM
    /\ threw = FALSE
    /\ call = [op |-> "new"]
    /\ ret = 0
    /\ ev = <<>> /\ edges = 0 /\ nmis = 0 /\ clocks = 0 /\ fetches = 0 /\ ops = 0

\* the variables after a storeBits call that left the cell at d
Stored(name, v, p, w, d) ==
    /\ latched' = [latched EXCEPT !.data = d]
    /\ call' = [op |-> name, val |-> v, pos |-> p, width |-> w, before |-> latched.data]
    /\ ret' = getBits(d, p, w)
    /\ ops' = ops + 1
    /\ UNCHANGED <<bus, cpu, ppu, rom, threw, ev, edges, nmis, clocks, fetches>>

\* reg.storeBits(v, {pos: p, width: w}); reg.getBits({pos: p, width: w})
StoreBits(v, p, w) ==
    Stored("storeBits", v, p, w, storeBits(latched.data, v, p, w, latched.W))

\* the same on a Register of part_006
StoreBitsPart006(v, p, w) ==
    Stored("storeBitsPart006", v, p, w, storeBitsPart006(latched.data, v, p, w, latched.W))

NextStore ==
    \/ /\ ops < MaxStoreOps
       /\ \E v \in StoreValues, p \in 0 .. (BitsOf(latched.W) - 1) :
            \E w \in 1 .. (BitsOf(latched.W) - p) : StoreBits(v, p, w)
    \/ /\ ops < MaxStoreOps
       /\ \E v \in StoreValues, p \in 0 .. (BitsOf(latched.W) - 1) :
            \E w \in 1 .. (BitsOf(latched.W) - p) : StoreBitsPart006(v, p, w)

SpecStore == InitStore /\ [][NextStore]_vars

\* the field holds the low bits of the stored value and no bit outside the
\* field has changed
FieldStored ==
    /\ ret = And(call.val, Shl(1, call.width) - 1)
    /\ And(latched.data, And(Not(Shl(Shl(1, call.width) - 1, call.pos)), latched.W - 1))
         = And(call.before, And(Not(Shl(Shl(1, call.width) - 1, call.pos)), latched.W - 1))

\* C17: after storeBits(v, {pos: p, width: w}) on a register of 8 or 16 bits,
\* with p inside the register and w in [1, bits - p], getBits of the same
\* field returns v & ((1 << w) - 1) and every bit outside [p, p + w) is as it
\* was.
C17_StoreThenGet == call.op = "storeBits" => FieldStored

\* the same for the storeBits of part_006
StoreThenGetPart006 == call.op = "storeBitsPart006" => FieldStored

\* storeBits(5, {pos: 0, width: 5}) on a 16-bit register holding 0xA5C3:
\* the field still reads 3 and bits 5-9 have changed (0xA5C3 became 0xA483)
FieldNotStored ==
    /\ call = [op |-> "storeBits", val |-> 5, pos |-> 0, width |-> 5, before |-> 42435]
    /\ latched = [W |-> U16, data |-> 42115]
    /\ ret = 3

---------------------------------------------------------------------------
(* The pixels PPU.clock hands to the display                               *)

\* the arguments <<x, y, palette entry>> of the display.drawPixel call that
\* PPU.clock makes when started in p: the call comes after the rendering and
\* vertical-blank work and before the dot counter advances
PPUdrawPixel(p, r) ==
    LET Visible(q) ==
          IF q.scanline >= -1 /\ q.scanline < 240 THEN RenderLine(q, r) ELSE q
        VBlank(q) ==
          IF q.scanline >= 241 /\ q.scanline < 261 THEN VBlankLine(q) ELSE q
        Draw(q) == PixelOut(q, r)
    IN  Draw(VBlank(Visible(p)))

\* entries of PPU.palette
PaletteEntries == 64

\* C18: the drawPixel(x, y, rgb) call of every PPU.clock has x in [0, 255],
\* y in [0, 239] and rgb an entry of the 64-entry palette table.
C18_Step ==
    call'.op = "clock" =>
        /\ PPUdrawPixel(ppu, rom)[1] \in 0 .. 255
        /\ PPUdrawPixel(ppu, rom)[2] \in 0 .. 239
        /\ PPUdrawPixel(ppu, rom)[3] \in 0 .. (PaletteEntries - 1)

C18_PixelsOnScreen == [][C18_Step]_vars

\* the palette index alone: always an entry of the table
PaletteEntryDefined ==
    [][call'.op = "clock" =>
         PPUdrawPixel(ppu, rom)[3] \in 0 .. (PaletteEntries - 1)]_vars

\* on dots 1-256 of scanlines 0-239 the pixel is on the screen
VisibleDotsOnScreen ==
    [][(call'.op = "clock" /\ PPUdrawPixel(ppu, rom)[1] \in 0 .. 255
          /\ ppu.scanline \in 0 .. 239) =>
         /\ PPUdrawPixel(ppu, rom)[2] = ppu.scanline
         /\ ppu'.cycle = PPUdrawPixel(ppu, rom)[1] + 2]_vars

\* the bus clocked past dot 257 of scanline 0: drawPixel(256, 0, ...) was called
PixelOffScreen ==
    /\ call.op = "clock"
    /\ ppu.scanline = 0
    /\ ppu.cycle = 258

---------------------------------------------------------------------------
(* The host's frame loop, run for ever: "do bus.clock() while              *)
(* (!bus.ppu.frameComplete)", then frameComplete = false.  latched holds   *)
(* the master-clock tick at which the running loop began.                  *)

\* A 32 KiB NROM cartridge whose program starts with BIT $00.
\*   8010 BIT $00
\*   FFFC 8010
CartBIT ==
    NewROM(2, 1, "HORIZONTAL",
           ImageOf(<< <<16, 36>>, <<17, 0>>, <<32764, 16>>, <<32765, 128>> >>),
           EmptyMem)

LoopCarts == { CartA, CartBIT }

\* ticks of the master clock explored: two frames and a little more
MaxLoopTicks == 180000

\* calls the claim allows one loop: 341 dots of 262 scanlines (89,342)
FrameCalls == 341 * 262

InitLoop ==
    \E cart \in LoopCarts :
        /\ bus = BusReset(Connected(cart)).bus
        /\ cpu = BusReset(Connected(cart)).cpu
        /\ ppu = BusReset(Connected(cart)).ppu
        /\ rom = cart
        /\ threw = FALSE
        /\ call = [NoCall EXCEPT !.op = "reset"]
        /\ ret = 0 /\ ev = <<>> /\ edges = 0 /\ nmis = 0
        /\ latched = [since |-> 0]
        /\ clocks = 0 /\ fetches = 0 /\ ops = 0

\* one bus.clock() of the loop
LoopClock ==
    /\ ~threw
    /\ ~ppu.frameComplete
    /\ bus.systemClock < MaxLoopTicks
    /\ ClockCall

\* the loop ends: "bus.ppu.frameComplete = false", and the next update()
LoopEnd ==
    /\ ~threw
    /\ ppu.frameComplete
    /\ ppu' = [ppu EXCEPT !.frameComplete = FALSE]
    /\ call' = [NoCall EXCEPT !.op = "frameEnd"]
    /\ latched' = [since |-> bus.systemClock]
    /\ nmis' = 0
    /\ ev' = <<>>
    /\ ret' = 0
    /\ UNCHANGED <<bus, cpu, rom, threw, edges, clocks, fetches, ops>>

NextLoop == LoopClock \/ LoopEnd

\* the loop keeps calling bus.clock() for as long as its condition lets it
SpecLoop == InitLoop /\ [][NextLoop]_vars /\ WF_vars(LoopClock)

\* a loop with a whole frame's calls left inside the ticks explored
LoopRunning ==
    /\ ~ppu.frameComplete
    /\ latched.since + FrameCalls <= MaxLoopTicks

\* C19: whatever the CPU executes, the loop reaches frameComplete within
\* 89,342 bus.clock() calls.  The bound makes this a condition on every
\* state of a running loop: no call has raised out of it (so, the loop being
\* fair, its next call is made) and fewer than 89,342 calls have been made
\* (so the 89,342nd at the latest finds frameComplete set).
C19_FrameCompletes ==
    LoopRunning => (~threw /\ bus.systemClock - latched.since < FrameCalls)

\* the count alone: a loop that has not raised has made fewer than 89,342 calls
LoopWithinFrameCalls ==
    (LoopRunning /\ ~threw) => bus.systemClock - latched.since < FrameCalls

\* calls raise only out of the BIT handler here
ThrownByBIT == threw => (rom = CartBIT /\ cpu.opcode = 36)

\* bus.clock() has raised out of the loop, mid-frame, from the BIT handler
LoopAbandoned ==
    /\ threw
    /\ ~ppu.frameComplete
    /\ cpu.opcode = 36

---------------------------------------------------------------------------
(* PPU.ppuWrite and PPU.ppuRead on the nametable addresses; ev keeps the   *)
(* calls made so far: [op, address, val (the byte written or returned)]    *)

\* calls explored from each start
MaxVramOps == 3

\* one address in each 1 KiB quadrant with the same low ten bits, two in the
\* mirror of the nametables at 0x3000, and two with other low bits
VramAddrs == { 8197, 9221, 10245, 11269, 12293, 16127, 12031, 8198 }
VramBytes == { 42, 77 }

\* ppu.ppuWrite(A, d)
PpuWrite(A, d) ==
    /\ ppu' = ppuWrite(ppu, rom, A, d).ppu
    /\ rom' = ppuWrite(ppu, rom, A, d).rom
    /\ ret' = 0
    /\ call' = [NoCall EXCEPT !.op = "ppuWrite", !.address = A, !.data = d]
    /\ ev' = Append(ev, [op |-> "ppuWrite", address |-> A, val |-> d])
    /\ ops' = ops + 1
    /\ UNCHANGED <<bus, cpu, threw, edges, nmis, latched, clocks, fetches>>

\* ppu.ppuRead(B)
PpuRead(B) ==
    /\ ret' = ppuRead(ppu, rom, B)
    /\ call' = [NoCall EXCEPT !.op = "ppuRead", !.address = B]
    /\ ev' = Append(ev, [op |-> "ppuRead", address |-> B, val |-> ppuRead(ppu, rom, B)])
    /\ ops' = ops + 1
    /\ UNCHANGED <<bus, cpu, ppu, rom, threw, edges, nmis, latched, clocks, fetches>>

NextVram ==
    \/ ops < MaxVramOps /\ \E A \in VramAddrs, d \in VramBytes : PpuWrite(A, d)
    \/ ops < MaxVramOps /\ \E B \in VramAddrs : PpuRead(B)

SpecVram == InitBus /\ [][NextVram]_vars

\* the 1 KiB quadrant of an address, and the bank (0 or 1) the claim gives it
Quadrant(A) == Shr(And(A, 4095), 10)

BankOf(mirroring, A) ==
    IF mirroring = "VERTICAL" THEN Quadrant(A) % 2 ELSE Quadrant(A) \div 2

\* C20, as a condition on every step: a ppuRead(B) that follows ppuWrite(A, d),
\* A and B in 0x2000-0x3EFF with the same low ten bits and quadrants of the
\* same bank (quadrants 0..3 are banks 0,1,0,1 under vertical and 0,0,1,1
\* under horizontal mirroring), returns d; and a ppuWrite to an address of
\* one bank leaves every byte of the other bank as it was.
C20_Step ==
    LET h == ev'
        n == Len(h)
    IN  /\ (n >= 2 /\ h[n].op = "ppuRead" /\ h[n - 1].op = "ppuWrite"
              /\ isInRange(h[n].address, 8192, 16127)
              /\ isInRange(h[n - 1].address, 8192, 16127)
              /\ And(h[n].address, 1023) = And(h[n - 1].address, 1023)
              /\ BankOf(rom.mirroring, h[n].address) = BankOf(rom.mirroring, h[n - 1].address))
             => ret' = h[n - 1].val
        /\ (call'.op = "ppuWrite" /\ isInRange(call'.address, 8192, 16127))
             => ppu'.nametables[2 - BankOf(rom.mirroring, call'.address)]
                  = ppu.nametables[2 - BankOf(rom.mirroring, call'.address)]

C20_Mirroring == [][C20_Step]_vars

\* under vertical mirroring, 42 written at 0x2005, 77 at 0x2405 (the other
\* bank), and a read at 0x2805 that returned the 42
C20_Witness ==
    /\ rom.mirroring = "VERTICAL"
    /\ ev = << [op |-> "ppuWrite", address |-> 8197, val |-> 42],
               [op |-> "ppuWrite", address |-> 9221, val |-> 77],
               [op |-> "ppuRead", address |-> 10245, val |-> 42] >>
    /\ ret = 42
    /\ MemGet(ppu.nametables[1], 5) = 42
    /\ MemGet(ppu.nametables[2], 5) = 77

---------------------------------------------------------------------------
(* PPU.ppuWrite and PPU.ppuRead on the pattern-table addresses             *)

\* calls explored from each start
MaxChrOps == 3

\* pattern-table addresses: the first ones, one in the second table, the last
ChrAddrs == { 0, 1, 9, 4101, 8191 }

NextChr ==
    \/ ops < MaxChrOps /\ \E A \in ChrAddrs, d \in VramBytes : PpuWrite(A, d)
    \/ ops < MaxChrOps /\ \E B \in ChrAddrs : PpuRead(B)

SpecChr == InitBus /\ [][NextChr]_vars

\* C21, as a condition on every step: on a cartridge with 0 CHR banks a
\* ppuRead(a) that follows ppuWrite(a, d), a in 0x0000-0x1FFF, returns d; on a
\* cartridge with CHR banks a ppuWrite to 0x0000-0x1FFF changes the value of
\* ppuRead at no address of that range.
C21_Step ==
    LET h == ev'
        n == Len(h)
    IN  /\ (rom.CHR_ROM_size = 0 /\ n >= 2 /\ h[n].op = "ppuRead"
              /\ h[n - 1].op = "ppuWrite" /\ h[n].address = h[n - 1].address
              /\ isInRange(h[n].address, 0, 8191))
             => ret' = h[n - 1].val
        /\ (rom.CHR_ROM_size > 0 /\ call'.op = "ppuWrite"
              /\ isInRange(call'.address, 0, 8191))
             => \A b \in ChrAddrs : ppuRead(ppu', rom', b) = ppuRead(ppu, rom, b)

C21_ChrMemory == [][C21_Step]_vars

\* without CHR banks: 42 written at 0x0001 sits in the pattern RAM and the
\* read of 0x0001 returned undefined
ChrRamByteLost ==
    /\ rom.CHR_ROM_size = 0
    /\ ev = << [op |-> "ppuWrite", address |-> 1, val |-> 42],
               [op |-> "ppuRead", address |-> 1, val |-> Undef] >>
    /\ MemGet(ppu.patternTable[1], 1) = 42
    /\ ret = Undef

\* with CHR banks: 42 written at 0x0000 and the read of 0x0000 returned it
ChrRomOverwritten ==
    /\ rom.CHR_ROM_size > 0
    /\ ev = << [op |-> "ppuWrite", address |-> 0, val |-> 42],
               [op |-> "ppuRead", address |-> 0, val |-> 42] >>
    /\ ret = 42

\* what does hold: with CHR banks, reads at 0x0001-0x1FFF return the
\* cartridge's bytes whatever has been written
ChrRomReadsAboveZero ==
    (rom.CHR_ROM_size > 0 /\ call.op = "ppuRead" /\ isInRange(call.address, 1, 8191))
        => ret = MemGet(rom.CHRROMData, call.address)

---------------------------------------------------------------------------
(* Single instructions: a program chunk loaded into RAM with               *)
(* Bus.loadChunkToRam and the CPU about to fetch its first opcode           *)

RECURSIVE LoadBytes(_, _, _)
LoadBytes(ram, i, data) ==
    IF data = <<>> THEN ram
    ELSE LoadBytes(MemPut(ram, i, Store(Head(data), U8)), i + 1, Tail(data))

\* faulty variant of Bus.loadChunkToRam: the bytes that fit are copied before
\* the chunk is refused
loadChunkToRamLate(m, address, data) ==
    IF address + Len(data) > 2048
    THEN [m EXCEPT !.thrown = TRUE,
                   !.bus.cpuRAM = LoadBytes(@, address, SubSeq(data, 1, 2048 - address))]
    ELSE [m EXCEPT !.bus.cpuRAM = LoadBytes(@, address, data)]

\* Bus.loadChunkToRam: throws when the chunk would end past the RAM, without
\* having copied anything; else copies the bytes in order
loadChunkToRam(m, address, data) ==
    IF address + Len(data) > 2048
    THEN [m EXCEPT !.thrown = TRUE]
    ELSE [m EXCEPT !.bus.cpuRAM = LoadBytes(@, address, data)]

\* where the chunks are loaded unless said otherwise
ProgramAt == 2 * 256

\* the machine after reset with chunk prog at address at, the registers as
\* given and the CPU between instructions with PC at the chunk: what a cartridge
\* program that loads the registers and jumps into RAM arrives at
Programmed(at, acc, irx, iry, ps, prog) ==
    [loadChunkToRam(BusReset(Connected(CartA)), at, prog)
        EXCEPT !.cpu.PC = at, !.cpu.ACC = acc, !.cpu.IRX = irx, !.cpu.IRY = iry,
               !.cpu.PS = ps, !.cpu.cycles = 0]

\* one cpu.clock() call; call.fetch tells whether it began an instruction
CpuClockCall ==
    /\ ~threw
    /\ Becomes(CPUclock(Machine))
    /\ call' = [NoCall EXCEPT !.op = "cpu.clock", !.entry = cpu, !.fetch = (cpu.cycles = 0)]
    /\ ret' = 0
    /\ ev' = <<>>
    /\ clocks' = clocks + 1
    /\ fetches' = fetches + (IF cpu.cycles = 0 THEN 1 ELSE 0)
    /\ ops' = ops + 1
    /\ UNCHANGED <<edges, nmis, latched>>

\* the byte at RAM address a
RamAt(a) == MemGet(bus.cpuRAM, a)

\* status flag n of the CPU as 0 or 1, before and after the step
Flag(n) == getBit(cpu.PS, n)

---------------------------------------------------------------------------
(* ADC and the compare instructions on immediate operands                  *)

\* cpu.clock() calls explored from each start
MaxAluOps == 1

\* register and operand bytes: the ends, the sign boundary, a few between
AluBytes == { 0, 1, 8, 16, 80, 127, 128, 160, 208, 255 }

\* ADC #, CMP #, CPX #, CPY #
AluOpcodes == { 105, 201, 224, 192 }

\* the register the instruction uses holds r, the other two its complement
InitAlu ==
    \E opcode \in AluOpcodes, r \in AluBytes, v \in AluBytes, c \in {0, 1} :
        Starts(Programmed(ProgramAt,
                          IF opcode \in {105, 201} THEN r ELSE 255 - r,
                          IF opcode = 224 THEN r ELSE 255 - r,
                          IF opcode = 192 THEN r ELSE 255 - r,
                          32 + c, << opcode, v >>), "load")

NextAlu == ops < MaxAluOps /\ CpuClockCall

SpecAlu == InitAlu /\ [][NextAlu]_vars

\* ADC's result, carry, zero and negative as claimed
AdcSum ==
    LET sum == cpu.ACC + RamAt(cpu.PC + 1) + Flag(0)
    IN  (call'.fetch /\ RamAt(cpu.PC) = 105) =>
           /\ cpu'.ACC = sum % 256
           /\ getBit(cpu'.PS, 0) = (IF sum > 255 THEN 1 ELSE 0)
           /\ getBit(cpu'.PS, 1) = (IF sum % 256 = 0 THEN 1 ELSE 0)
           /\ getBit(cpu'.PS, 7) = (sum % 256) \div 128

\* ADC's overflow flag as claimed
AdcOverflow ==
    LET opd == RamAt(cpu.PC + 1)
        res == (cpu.ACC + opd + Flag(0)) % 256
    IN  (call'.fetch /\ RamAt(cpu.PC) = 105) =>
           getBit(cpu'.PS, 6) =
              (IF And(And(Not(Xor(cpu.ACC, opd)), Xor(cpu.ACC, res)), 128) # 0 THEN 1 ELSE 0)

\* C22: ADC leaves A = (A + m + c) & 0xFF, C = 1 iff A + m + c > 0xFF, Z = 1
\* iff the result is 0, N = bit 7 of the result and V = 1 iff
\* (~(A ^ m) & (A ^ result)) & 0x80 is not 0.
C22_Adc == [][AdcSum /\ AdcOverflow]_vars

\* the part without V
AdcButOverflow == [][AdcSum]_vars

\* 0x50 + 0x50: A = 0xA0, N set, C clear, and V clear
AdcOverflowLost ==
    /\ call.op = "cpu.clock"
    /\ call.entry.ACC = 80 /\ RamAt(ProgramAt) = 105 /\ RamAt(ProgramAt + 1) = 80
    /\ getBit(call.entry.PS, 0) = 0
    /\ cpu.ACC = 160
    /\ Flag(7) = 1 /\ Flag(0) = 0
    /\ Flag(6) = 0

\* the register a compare opcode compares: CMP the accumulator, CPX X, CPY Y
Compared(c, opcode) == IF opcode = 201 THEN c.ACC ELSE IF opcode = 224 THEN c.IRX ELSE c.IRY

\* N and Z after a compare, and the registers, as claimed
CompareSignZero ==
    LET r   == Compared(cpu, RamAt(cpu.PC))
        opd == RamAt(cpu.PC + 1)
    IN  (call'.fetch /\ RamAt(cpu.PC) \in {201, 224, 192}) =>
           /\ getBit(cpu'.PS, 1) = (IF r = opd THEN 1 ELSE 0)
           /\ getBit(cpu'.PS, 7) = ((r - opd) % 256) \div 128
           /\ cpu'.ACC = cpu.ACC /\ cpu'.IRX = cpu.IRX /\ cpu'.IRY = cpu.IRY

\* C after a compare as claimed
CompareCarry ==
    (call'.fetch /\ RamAt(cpu.PC) \in {201, 224, 192}) =>
        getBit(cpu'.PS, 0) =
           (IF Compared(cpu, RamAt(cpu.PC)) >= RamAt(cpu.PC + 1) THEN 1 ELSE 0)

\* C23: after CMP, CPX or CPY of register value r with operand m, C = 1 iff
\* r >= m, Z = 1 iff r = m, N = bit 7 of (r - m) mod 256, and the registers
\* are unchanged.
C23_Compare == [][CompareSignZero /\ CompareCarry]_vars

\* the part without C
CompareButCarry == [][CompareSignZero]_vars

\* CPX #$10 with X = 0x10: Z set and C clear
CompareCarryLost ==
    /\ call.op = "cpu.clock"
    /\ RamAt(ProgramAt) = 224 /\ RamAt(ProgramAt + 1) = 16
    /\ call.entry.IRX = 16
    /\ cpu.IRX = 16
    /\ Flag(1) = 1
    /\ Flag(0) = 0

---------------------------------------------------------------------------
(* The conditional branches                                                *)

\* cpu.clock() calls explored from each start
MaxBranchOps == 2

\* BPL BMI BVC BVS BCC BCS BNE BEQ
BranchOpcodes == { 16, 48, 80, 112, 144, 176, 208, 240 }

\* offsets: forward, none, the farthest forward, the farthest back, back
BranchOffsets == { 5, 0, 127, 128, 251 }

\* the branch sits in mid-page or at the end of a page
BranchSites == { 512, 752 }

\* the status register with N, V, Z and C all clear or all set
BranchFlags == { 32, 227 }

InitBranch ==
    \E opcode \in BranchOpcodes, off \in BranchOffsets, at \in BranchSites,
       ps \in BranchFlags :
        Starts(Programmed(at, 0, 0, 0, ps, << opcode, off >>), "load")

NextBranch == ops < MaxBranchOps /\ CpuClockCall

SpecBranch == InitBranch /\ [][NextBranch]_vars

\* whether the branch with this opcode is taken under status ps
Taken(opcode, ps) ==
    CASE opcode = 16  -> getBit(ps, 7) = 0
      [] opcode = 48  -> getBit(ps, 7) = 1
      [] opcode = 80  -> getBit(ps, 6) = 0
      [] opcode = 112 -> getBit(ps, 6) = 1
      [] opcode = 144 -> getBit(ps, 0) = 0
      [] opcode = 176 -> getBit(ps, 0) = 1
      [] opcode = 208 -> getBit(ps, 1) = 0
      [] OTHER        -> getBit(ps, 1) = 1

\* PC + 2 + the sign-extended offset, mod 2^16
BranchTarget(pc, off) == (pc + 2 + (IF off >= 128 THEN off - 256 ELSE off)) % 65536

\* C24, as a condition on every step that begins a branch instruction: not
\* taken it sets 2 cycles and PC to the next instruction; taken it sets PC to
\* (PC + 2 + offset) mod 2^16 and 3 cycles when the target is on the page of
\* PC + 2, 4 when not (the call itself counts one of them down).
C24_Step ==
    LET opcode == RamAt(cpu.PC)
        target == BranchTarget(cpu.PC, RamAt(cpu.PC + 1))
    IN  (call'.fetch /\ opcode \in BranchOpcodes) =>
           IF ~Taken(opcode, cpu.PS)
           THEN cpu'.PC = cpu.PC + 2 /\ cpu'.cycles = 2 - 1
           ELSE /\ cpu'.PC = target
                /\ cpu'.cycles = (IF target \div 256 = (cpu.PC + 2) \div 256 THEN 3 ELSE 4) - 1

C24_Branches == [][C24_Step]_vars

\* BEQ taken from 0x02F0 by +127 to 0x0371, across a page: three of its four
\* cycles remain after the first call
C24_Witness ==
    /\ call.op = "cpu.clock" /\ call.fetch
    /\ call.entry.PC = 752
    /\ RamAt(752) = 240 /\ RamAt(753) = 127
    /\ cpu.PC = 881
    /\ cpu.cycles = 3

---------------------------------------------------------------------------
(* Cycle counts: cpu.clock() calls from one opcode fetch to the next       *)

\* cpu.clock() calls explored from each start
MaxCycleOps == 7

\* LDA #, LDA abs, LDA abs,X, STA abs,X, NOP
CycleOpcodes == { 169, 173, 189, 157, 234 }

\* operand addresses (0x0010 and 0x00FF) and index values (X and Y alike)
CycleOperands == { 16, 255 }
CycleIndexes == { 0, 1, 32 }

\* the instruction with its operand bytes, followed by NOPs
CycleChunk(opcode, lo) ==
    (IF opcode = 234 THEN << opcode >>
     ELSE IF opcode = 169 THEN << opcode, lo >>
     ELSE << opcode, lo, 0 >>) \o << 234, 234, 234 >>

InitCycles ==
    \E opcode \in CycleOpcodes, lo \in CycleOperands, x \in CycleIndexes :
        Starts(Programmed(ProgramAt, 7, x, x, 32, CycleChunk(opcode, lo)), "load")

NextCycles == ops < MaxCycleOps /\ CpuClockCall

SpecCycles == InitCycles /\ [][NextCycles]_vars

\* the cycles the claim gives the instruction at ProgramAt: the table's base
\* count, and one more for LDA abs,X when 0x00lo + X leaves page 0
ClaimedCycles ==
    operations[RamAt(ProgramAt) + 1].cycles
      + (IF RamAt(ProgramAt) = 189 /\ RamAt(ProgramAt + 1) + cpu.IRX > 255 THEN 1 ELSE 0)

\* the second opcode fetch has just been made
SecondFetch == call.op = "cpu.clock" /\ call.fetch /\ fetches = 2

\* C25: an instruction takes its base count of cpu.clock() calls, and one
\* more only for a read instruction in abs,X, abs,Y or (ind),Y mode whose
\* indexed address is on another page than its base address: the second
\* opcode fetch comes in the call after that many.
C25_CycleCounts == SecondFetch => clocks - 1 = ClaimedCycles

\* the stores and NOP, page crossings apart, do take their base counts
BaseCyclesOfStaAndNop ==
    (SecondFetch /\ RamAt(ProgramAt) \in {157, 234}
       /\ RamAt(ProgramAt + 1) + cpu.IRX <= 255) => clocks - 1 = ClaimedCycles

\* LDA #$10 took three cpu.clock() calls: the fourth fetched the NOP after it
LdaImmediateThree ==
    /\ SecondFetch
    /\ RamAt(ProgramAt) = 169
    /\ cpu.ACC = 16
    /\ cpu.opcode = 234
    /\ clocks = 4

\* opcode 0x9D, a store, with operand 0x00FF and index 1 took six calls, one
\* more than its base five
StaCrossingSix ==
    /\ SecondFetch
    /\ RamAt(ProgramAt) = 157 /\ RamAt(ProgramAt + 1) = 255 /\ cpu.IRX = 1
    /\ RamAt(256) = 7
    /\ clocks = 7

---------------------------------------------------------------------------
(* The opcode table, entry by entry: ret holds the entry looked up         *)

InitTable ==
    /\ Starts(Connected(CartA), "new")

\* this.operations[i]
Lookup(i) ==
    /\ call.op = "new"
    /\ call' = [NoCall EXCEPT !.op = "lookup", !.data = i]
    /\ ret' = operations[i + 1]
    /\ ops' = ops + 1
    /\ UNCHANGED <<bus, cpu, ppu, rom, threw, ev, edges, nmis, latched, clocks, fetches>>

NextTable == \E i \in 0 .. 255 : Lookup(i)

SpecTable == InitTable /\ [][NextTable]_vars

\* the reference chart's rows for the opcodes the claim lists, in the
\* table's names for the addressing modes
ChartOpcodes == { 157, 253, 254, 110, 126, 134, 230, 248 }

Chart(i) ==
    CASE i = 157 -> [name |-> "STA", addrMode |-> "ABSI_X", cycles |-> 5]
      [] i = 253 -> [name |-> "SBC", addrMode |-> "ABSI_X", cycles |-> 4]
      [] i = 254 -> [name |-> "INC", addrMode |-> "ABSI_X", cycles |-> 7]
      [] i = 110 -> [name |-> "ROR", addrMode |-> "ABS", cycles |-> 6]
      [] i = 126 -> [name |-> "ROR", addrMode |-> "ABSI_X", cycles |-> 7]
      [] i = 134 -> [name |-> "STX", addrMode |-> "ZP", cycles |-> 3]
      [] i = 230 -> [name |-> "INC", addrMode |-> "ZP", cycles |-> 5]
      [] OTHER   -> [name |-> "SED", addrMode |-> "IMP", cycles |-> 2]

\* the entry at index i has opcode field i
OpcodeFieldIsIndex == call.op = "lookup" => ret.opcode = call.data

\* C26: the table's entry for an official opcode carries the chart's
\* mnemonic, addressing mode and base cycles (0x9D = STA abs,X 5; 0xFD = SBC
\* abs,X 4; 0xFE = INC abs,X 7; 0x6E = ROR abs 6; 0x7E = ROR abs,X 7;
\* 0x86 = STX zp 3; 0xE6 = INC zp 5; 0xF8 = SED 2), and the entry at index i
\* has opcode field i.
C26_OpcodeTable ==
    /\ OpcodeFieldIsIndex
    /\ (call.op = "lookup" /\ call.data \in ChartOpcodes) =>
           /\ ret.name = Chart(call.data).name
           /\ ret.addrMode = Chart(call.data).addrMode
           /\ ret.cycles = Chart(call.data).cycles

\* the table's entry 0xFD: INC, where the chart has SBC abs,X
EntryFDIsInc ==
    /\ call.op = "lookup" /\ call.data = 253
    /\ ret = [opcode |-> 253, name |-> "INC", addrMode |-> "ABSI_X", cycles |-> 7]

---------------------------------------------------------------------------
(* Interrupt requests: cpu.IRQ() called on a CPU in the middle of a program *)

MaxIrqOps == 2

IrqCounters == { 32768, 4863, 49323 }
IrqStacks   == { 253, 2, 1, 0 }
IrqFlags    == { 0, 4, 16, 52, 251, 255 }
IrqCycles   == { 0, 5 }

InitIrq ==
    \E pc \in IrqCounters, sp \in IrqStacks, ps \in IrqFlags, cyc \in IrqCycles :
        Starts([BusReset(Connected(CartA))
                    EXCEPT !.cpu.PC = pc, !.cpu.SP = sp, !.cpu.PS = ps,
                           !.cpu.ACC = 7, !.cpu.IRX = 8, !.cpu.IRY = 9,
                           !.cpu.cycles = cyc], "load")

\* cpu.IRQ()
IrqCall ==
    /\ ops < MaxIrqOps
    /\ Becomes(CPUIRQ(Machine))
    /\ call' = [NoCall EXCEPT !.op = "irq", !.entry = cpu]
    /\ ret' = 0
    /\ ops' = ops + 1
    /\ UNCHANGED <<ev, edges, nmis, latched, clocks, fetches>>

NextIrq == IrqCall

SpecIrq == InitIrq /\ [][NextIrq]_vars

\* the stack slot the n-th push of a call lands in
IrqSlot(n) == 256 + And(cpu.SP - n, 255)

\* a call with I set changes no register, no memory byte, not cycles
IrqMasked ==
    /\ cpu'.PC = cpu.PC /\ cpu'.SP = cpu.SP /\ cpu'.PS = cpu.PS
    /\ cpu'.ACC = cpu.ACC /\ cpu'.IRX = cpu.IRX /\ cpu'.IRY = cpu.IRY
    /\ cpu'.cycles = cpu.cycles
    /\ bus'.cpuRAM = bus.cpuRAM
    /\ ppu' = ppu /\ rom' = rom

\* a call with I clear: three pushes, the vector, seven cycles
IrqTaken ==
    /\ MemGet(bus'.cpuRAM, IrqSlot(0)) = And(Shr(cpu.PC, 8), 255)
    /\ MemGet(bus'.cpuRAM, IrqSlot(1)) = And(cpu.PC, 255)
    /\ MemGet(bus'.cpuRAM, IrqSlot(2)) = Or(And(cpu.PS, 239), 4)
    /\ \A a \in 0 .. 2047 :
           a \notin { IrqSlot(0), IrqSlot(1), IrqSlot(2) } =>
               MemGet(bus'.cpuRAM, a) = MemGet(bus.cpuRAM, a)
    /\ cpu'.SP = And(cpu.SP - 3, 255)
    /\ cpu'.PS = Or(And(cpu.PS, 239), 4)
    /\ cpu'.PC = 32768 + 48
    /\ cpu'.PC = PrgAt(32766) + 256 * PrgAt(32767)
    /\ cpu'.cycles = 7
    /\ cpu'.ACC = cpu.ACC /\ cpu'.IRX = cpu.IRX /\ cpu'.IRY = cpu.IRY
    /\ ~threw'

C27_Step ==
    call'.op = "irq" =>
        IF And(cpu.PS, 4) # 0 THEN IrqMasked ELSE IrqTaken

---------------------------------------------------------------------------
(* The iNES header: flag bytes as strings of binary digits                 *)

\* Number.prototype.toString(2) of a non-negative integer: its binary
\* digits, most significant first, as a string (a sequence of characters)
RECURSIVE toString2(_)
toString2(n) ==
    IF n < 2 THEN << IF n = 1 THEN "1" ELSE "0" >>
    ELSE toString2(n \div 2) \o << IF n % 2 = 1 THEN "1" ELSE "0" >>

\* String.prototype.slice(a, b), and slice(-k)
slice(s, a, b) == SubSeq(s, a + 1, b)
sliceLast(s, k) == SubSeq(s, Len(s) - k + 1, Len(s))

\* the unary plus on a string of digits: the number it spells in base ten
RECURSIVE ToNumber(_)
ToNumber(s) ==
    IF s = <<>> THEN 0
    ELSE 10 * ToNumber(SubSeq(s, 1, Len(s) - 1)) + (IF s[Len(s)] = "1" THEN 1 ELSE 0)

\* parseInt(s, 2)
RECURSIVE parseInt2(_)
parseInt2(s) ==
    IF s = <<>> THEN 0
    ELSE 2 * parseInt2(SubSeq(s, 1, Len(s) - 1)) + (IF s[Len(s)] = "1" THEN 1 ELSE 0)

\* to8bitBinary
to8bitBinary(num) ==
    sliceLast(<<"0", "0", "0", "0", "0", "0", "0", "0">> \o toString2(num), 8)

\* RomHeader.parseFlags6
parseFlags6(flags6) ==
    [lowerMapperNumber      |-> slice(flags6, 0, 4),
     ignoreMirroringControl |-> ToNumber(<<flags6[5]>>) # 0,
     trainer                |-> ToNumber(<<flags6[6]>>),
     PRGRAM                 |-> ToNumber(<<flags6[7]>>) # 0,
     mirroring              |-> ToNumber(<<flags6[8]>>)]

\* RomHeader.parseFlags7
parseFlags7(flags7) ==
    [upperMapperNumber |-> slice(flags7, 0, 4),
     isNES20           |-> parseInt2(slice(flags7, 4, 6)) = 2,
     playChoice10      |-> ToNumber(<<flags7[7]>>) # 0,
     VSUnisystem       |-> ToNumber(<<flags7[8]>>) # 0]

\* new RomHeader(header), for a header with the given size and flag bytes
RomHeader(prgSize, chrSize, byte6, byte7) ==
    [PRG_ROM_size |-> prgSize,
     CHR_ROM_size |-> chrSize,
     flags6       |-> to8bitBinary(byte6),
     flags7       |-> to8bitBinary(byte7),
     flag6obj     |-> parseFlags6(to8bitBinary(byte6)),
     flag7obj     |-> parseFlags7(to8bitBinary(byte7)),
     mirroring    |-> IF parseFlags6(to8bitBinary(byte6)).mirroring # 0
                      THEN "VERTICAL" ELSE "HORIZONTAL",
     mapperID     |-> Or(Shl(ToNumber(parseFlags7(to8bitBinary(byte7)).upperMapperNumber), 4),
                         ToNumber(parseFlags6(to8bitBinary(byte6)).lowerMapperNumber))]

InitHeader == Starts(Connected(CartA), "new")

\* new RomHeader(header) with header[6] = byte6 and header[7] = byte7
ParseHeader(byte6, byte7) ==
    /\ call' = [NoCall EXCEPT !.op = "header", !.address = byte6, !.data = byte7]
    /\ ret' = RomHeader(2, 1, byte6, byte7)
    /\ ops' = ops + 1
    /\ UNCHANGED <<bus, cpu, ppu, rom, threw, ev, edges, nmis, latched, clocks, fetches>>

NextHeader ==
    /\ call.op = "new"
    /\ \E byte6 \in 0 .. 255, byte7 \in 0 .. 255 : ParseHeader(byte6, byte7)

SpecHeader == InitHeader /\ [][NextHeader]_vars

Parsed == call.op = "header"

\* what does hold: the strings are the bytes' eight binary digits, the
\* mirroring is VERTICAL iff bit 0 of flags6 is 1, the trainer flag is bit 2
\* of flags6, and the mapper ID is the claimed one when each nibble is 0 or 1
HeaderButMapper ==
    Parsed =>
        /\ Len(ret.flags6) = 8 /\ parseInt2(ret.flags6) = call.address
        /\ Len(ret.flags7) = 8 /\ parseInt2(ret.flags7) = call.data
        /\ (ret.mirroring = "VERTICAL") = (And(call.address, 1) = 1)
        /\ ret.flag6obj.trainer = And(Shr(call.address, 2), 1)
        /\ (Shr(call.address, 4) < 2 /\ Shr(call.data, 4) < 2) =>
               ret.mapperID = Or(Shl(Shr(call.data, 4), 4), Shr(call.address, 4))

\* C29: for header bytes flags6 and flags7 in 0..255 the parsed mapper ID is
\* ((flags7 >> 4) << 4) | (flags6 >> 4), the mirroring is VERTICAL iff bit 0
\* of flags6 is 1, and the trainer flag is bit 2 of flags6.
C29_HeaderFlags ==
    Parsed =>
        /\ ret.mapperID = Or(Shl(Shr(call.data, 4), 4), Shr(call.address, 4))
        /\ (ret.mirroring = "VERTICAL") = (And(call.address, 1) = 1)
        /\ ret.flag6obj.trainer = And(Shr(call.address, 2), 1)

\* flags6 = 0x20, flags7 = 0x00 (mapper 2, UxROM): parsed as mapper 10
MapperTwoReadAsTen ==
    /\ Parsed /\ call.address = 32 /\ call.data = 0
    /\ ret.flag6obj.lowerMapperNumber = <<"0", "0", "1", "0">>
    /\ ret.mapperID = 10

---------------------------------------------------------------------------
(* Constructing a cartridge from an image: the mapper switch               *)

\* new ROM(romData) for an image with the given header bytes and bodies
\* (the bodies are the bytes after the header and the trainer, if any):
\* [rom |-> the cartridge, header |-> its RomHeader, mapper |-> the class of
\* the mapper constructed, thrown |-> whether the constructor threw]
ROMOfImage(prgUnits, chrUnits, byte6, byte7, prgImage, chrImage) ==
    [rom    |-> NewROM(prgUnits, chrUnits,
                       RomHeader(prgUnits, chrUnits, byte6, byte7).mirroring,
                       prgImage, chrImage),
     header |-> RomHeader(prgUnits, chrUnits, byte6, byte7),
     mapper |-> CASE RomHeader(prgUnits, chrUnits, byte6, byte7).mapperID = 0 -> "Mapper000"
                  [] OTHER -> "Mapper000",
     thrown |-> FALSE]

\* upper mapper nibbles tried (byte 7 of the header)
CartUppers == { 0, 16, 64, 240 }

InitCart == Starts(Connected(CartA), "new")

\* rom = new ROM(image); bus.connectRom(rom)
ConstructRom(byte6, byte7) ==
    /\ Becomes([Machine EXCEPT
                   !.rom = ROMOfImage(2, 1, byte6, byte7, CartA.PRGROMData, CartA.CHRROMData).rom,
                   !.thrown = ROMOfImage(2, 1, byte6, byte7, CartA.PRGROMData, CartA.CHRROMData).thrown])
    /\ call' = [NoCall EXCEPT !.op = "rom", !.address = byte6, !.data = byte7]
    /\ ret' = [header |-> ROMOfImage(2, 1, byte6, byte7, CartA.PRGROMData, CartA.CHRROMData).header,
               mapper |-> ROMOfImage(2, 1, byte6, byte7, CartA.PRGROMData, CartA.CHRROMData).mapper]
    /\ ops' = ops + 1
    /\ UNCHANGED <<ev, edges, nmis, latched, clocks, fetches>>

NextCart ==
    /\ call.op = "new"
    /\ \E byte6 \in 0 .. 255, byte7 \in CartUppers : ConstructRom(byte6, byte7)

SpecCart == InitCart /\ [][NextCart]_vars

\* the header's mapper ID, from the nibbles of the two flag bytes
HeaderMapper == Or(Shl(Shr(call.data, 4), 4), Shr(call.address, 4))

\* what the constructor does: whatever the mapper ID, no error and a
\* cartridge whose mapper is a Mapper000
AlwaysMapper000 ==
    call.op = "rom" => (~threw /\ ret.mapper = "Mapper000")

\* C28: constructing a cartridge from an image whose header mapper ID is
\* not 0 fails with an error; no cartridge backed by the Mapper 0
\* implementation is produced for it.
C28_UnknownMapper ==
    (call.op = "rom" /\ HeaderMapper # 0) => (threw /\ ret.mapper # "Mapper000")

\* an MMC1 image (mapper 1: flags6 = 0x10) has become a cartridge that
\* answers through the Mapper 0 address mapping
Mapper1BuiltAsMapper000 ==
    /\ call.op = "rom" /\ call.address = 16 /\ call.data = 0
    /\ HeaderMapper = 1 /\ ret.header.mapperID = 1
    /\ ~threw
    /\ ret.mapper = "Mapper000"
    /\ cpuMapRead(rom, 49152 + 5) = 16384 + 5

---------------------------------------------------------------------------
(* Loading chunks into the RAM                                             *)

MaxLoadOps == 2

\* longest chunk tried
MaxChunk == 3

ChunkBytes == { 0, 7, 255 }
ChunkAddrs == { 0, 5, 2045, 2046, 2047, 2048 }

Chunks == UNION { [1 .. n -> ChunkBytes] : n \in 0 .. MaxChunk }

InitLoad == Boot(CartA)

\* bus.loadChunkToRam(address, data)
LoadChunk(address, data) ==
    /\ Becomes(loadChunkToRam(Machine, address, data))
    /\ call' = [NoCall EXCEPT !.op = "loadChunk", !.address = address, !.data = data]
    /\ ret' = 0
    /\ ops' = ops + 1
    /\ UNCHANGED <<ev, edges, nmis, latched, clocks, fetches>>

NextLoad ==
    /\ ops < MaxLoadOps
    /\ \E address \in ChunkAddrs, data \in Chunks : LoadChunk(address, data)

SpecLoad == InitLoad /\ [][NextLoad]_vars

C30_Step ==
    call'.op = "loadChunk" =>
        IF call'.address + Len(call'.data) > 2048
        THEN /\ threw'
             /\ bus'.cpuRAM = bus.cpuRAM
        ELSE /\ ~threw'
             /\ \A k \in 0 .. 2047 :
                    MemGet(bus'.cpuRAM, k) =
                        IF k >= call'.address /\ k < call'.address + Len(call'.data)
                        THEN call'.data[k - call'.address + 1]
                        ELSE MemGet(bus.cpuRAM, k)

\* C30: Bus.loadChunkToRam(address, data) fails with an error whenever
\* address + data.length exceeds 2048, leaving every RAM byte unchanged;
\* otherwise it copies data into RAM[address .. address + data.length - 1]
\* in order and changes no other RAM byte.
C30_LoadChunk == [][C30_Step]_vars

\* a chunk loaded up to the last byte of the RAM, then a chunk one byte too
\* long refused with the RAM as the first load left it
C30_Witness ==
    /\ ops = 2
    /\ call.op = "loadChunk"
    /\ threw
    /\ call.address = 2046
    /\ call.data = <<7, 7, 7>>
    /\ RamAt(2045) = 255
    /\ RamAt(2046) = 0
    /\ RamAt(2047) = 7

---------------------------------------------------------------------------
(* The disassembler: CPU.parseMemory                                       *)

\* a number operand of a JavaScript bit operator: undefined counts as 0
BitNum(x) == IF x = Undef THEN 0 ELSE x

\* one turn of parseMemory's while loop at address: the entry it sets in the
\* map and the address of the next turn.  The opcode byte and the operand
\* bytes come from bus.debugRead; an opcode that is undefined has no table
\* entry, and reading the name of the missing entry is a TypeError.
parseTurn(m, address) ==
    LET opcode == BusDebugRead(m, address).data
        mode   == operations[opcode + 1].addrMode
        low    == BusDebugRead(m, address + 1).data
        high   == BusDebugRead(m, address + 2).data
    IN  IF BusDebugRead(m, address).m.thrown \/ opcode = Undef
        THEN [thrown |-> TRUE, next |-> address + 1,
              entry |-> [line |-> address, opcode |-> opcode, name |-> "", addrMode |-> "", operand |-> 0]]
        ELSE IF mode \in {"IMM", "ZP", "ZPI_X", "ZPI_Y", "INDX_IND_X", "IND_INDX_Y", "REL"}
        THEN [thrown |-> FALSE, next |-> address + 2,
              entry |-> [line |-> address, opcode |-> opcode,
                         name |-> operations[opcode + 1].name, addrMode |-> mode,
                         operand |-> low]]
        ELSE IF mode \in {"ABS", "ABSI_X", "ABSI_Y", "IND"}
        THEN [thrown |-> FALSE, next |-> address + 3,
              entry |-> [line |-> address, opcode |-> opcode,
                         name |-> operations[opcode + 1].name, addrMode |-> mode,
                         operand |-> Or(Shl(BitNum(high), 8), BitNum(low))]]
        ELSE [thrown |-> FALSE, next |-> address + 1,
              entry |-> [line |-> address, opcode |-> opcode,
                         name |-> operations[opcode + 1].name, addrMode |-> mode,
                         operand |-> 0]]

\* CPU.parseMemory, from the loop's turn at address on: [m |-> the machine
\* afterwards, map |-> the entries set, in the order they were set]
RECURSIVE parseFrom(_, _, _, _)
parseFrom(m, address, endAddr, parsed) ==
    IF address > endAddr THEN [m |-> m, map |-> parsed]
    ELSE IF parseTurn(m, address).thrown THEN [m |-> [m EXCEPT !.thrown = TRUE], map |-> parsed]
    ELSE parseFrom(m, parseTurn(m, address).next, endAddr,
                   Append(parsed, parseTurn(m, address).entry))

\* CPU.parseMemory(cpu, startAddr, endAddr)
parseMemory(m, startAddr, endAddr) == parseFrom(m, startAddr, endAddr, <<>>)

\* longest range disassembled, in bytes
MaxParse == 8

ParseStarts == { 0, 8192, 16406, 32784, 32789, 32794, 49168, 65530 }

\* CPU.parseMemory(cpu, startAddr, endAddr)
ParseCall(startAddr, endAddr) ==
    /\ Becomes(parseMemory(Machine, startAddr, endAddr).m)
    /\ call' = [NoCall EXCEPT !.op = "parse", !.address = startAddr, !.data = endAddr,
                              !.entry = cpu]
    /\ ret' = parseMemory(Machine, startAddr, endAddr).map
    /\ ops' = ops + 1
    /\ UNCHANGED <<ev, edges, nmis, latched, clocks, fetches>>

NextParse ==
    /\ call.op = "reset"
    /\ \E startAddr \in ParseStarts, n \in 0 .. MaxParse :
           ParseCall(startAddr, startAddr + n - 1)

SpecParse == InitPort /\ [][NextParse]_vars

\* the bytes an instruction takes, by its addressing mode
ModeLength(mode) ==
    CASE mode \in {"IMM", "ZP", "ZPI_X", "ZPI_Y", "INDX_IND_X", "IND_INDX_Y", "REL"} -> 2
      [] mode \in {"ABS", "ABSI_X", "ABSI_Y", "IND"} -> 3
      [] OTHER -> 1

\* the map ret is a disassembly of [startAddr, endAddr]: it begins at
\* startAddr, each key is the previous key plus the previous instruction's
\* length, each entry is the table's entry for the opcode at its key, and the
\* last instruction reaches endAddr
Disassembles(map, startAddr, endAddr) ==
    /\ (map = <<>>) = (startAddr > endAddr)
    /\ map # <<>> =>
           /\ map[1].line = startAddr
           /\ map[Len(map)].line <= endAddr
           /\ map[Len(map)].line + ModeLength(map[Len(map)].addrMode) > endAddr
    /\ \A i \in DOMAIN map :
           /\ map[i].opcode = BusDebugRead(Machine, map[i].line).data
           /\ map[i].opcode \in 0 .. 255
           /\ map[i].addrMode = operations[map[i].opcode + 1].addrMode
           /\ map[i].name = operations[map[i].opcode + 1].name
           /\ i > 1 => map[i].line = map[i - 1].line + ModeLength(map[i - 1].addrMode)

C31_Step ==
    call'.op = "parse" =>
        /\ ~threw'
        /\ bus' = bus /\ cpu' = cpu /\ ppu' = ppu /\ rom' = rom
        /\ Disassembles(ret', call'.address, call'.data)

\* C31: CPU.parseMemory(cpu, start, end) terminates for every range, changes
\* no bus, CPU or PPU state, and returns a map whose keys are strictly
\* increasing instruction addresses beginning at start, each the previous
\* key plus the length its addressing mode implies, so that every address of
\* [start, end] belongs to exactly one decoded instruction.
C31_ParseMemory == [][C31_Step]_vars

\* what does hold: no state is changed, and the claim holds whenever the
\* call returns
ParseButThrow ==
    call.op = "parse" =>
        /\ cpu = call.entry
        /\ ~threw => Disassembles(ret, call.address, call.data)

\* on the one-bank cartridge, parseMemory(cpu, 0xC010, 0xC012) has thrown
\* with nothing decoded: the opcode read at 0xC010 is undefined
ParseThrows ==
    /\ call.op = "parse" /\ call.address = 49168 /\ call.data = 49170
    /\ rom.PRG_ROM_size = 1
    /\ BusDebugRead(Machine, 49168).data = Undef
    /\ threw
    /\ ret = <<>>

\* on the two-bank cartridge the program at 0x8015 is decoded: LDA #$80,
\* STA $2000, LDA $2002
ParseDecodes ==
    /\ call.op = "parse" /\ call.address = 32789 /\ call.data = 32796
    /\ ~threw
    /\ Len(ret) = 3
    /\ ret[1].name = "LDA" /\ ret[1].line = 32789 /\ ret[1].operand = 128
    /\ ret[2].name = "STA" /\ ret[2].line = 32791 /\ ret[2].operand = 8192
    /\ ret[3].name = "LDA" /\ ret[3].line = 32794 /\ ret[3].operand = 8194

---------------------------------------------------------------------------
(* Every opcode, run from the RAM: cpu.clock() called again and again       *)

\* cpu.clock() calls followed; the longest instruction takes 9
MaxStepOps == 12

StepOperands == { 16, 255 }

InitStep ==
    \E opcode \in 0 .. 255, operand \in StepOperands :
        Starts(Programmed(ProgramAt, 7, 1, 2, 32, << opcode, operand, 0 >>), "load")

StepClock == ops < MaxStepOps /\ CpuClockCall

NextStep == StepClock

\* the calls keep coming: singleStep() and the frame loop call cpu.clock()
\* until their condition is met
SpecStep == InitStep /\ [][NextStep]_vars /\ WF_vars(StepClock)

\* C32: cycles_remaining is never negative, and after an opcode fetch it is
\* back at 0 within finitely many cpu.clock() calls, for every opcode value
\* (the next instruction is fetched: here, within MaxStepOps calls of the
\* first fetch).
C32_CyclesReturn ==
    /\ cpu.cycles >= 0
    /\ clocks = MaxStepOps => fetches >= 2

\* what does hold: the counter goes negative, and the next fetch stays out,
\* only after the fetch of an opcode whose table entry has 0 cycles
NegativeOnlyInZeroSlots ==
    (cpu.cycles < 0 \/ (clocks = MaxStepOps /\ fetches < 2)) =>
        /\ operations[cpu.opcode + 1].cycles = 0
        /\ operations[cpu.opcode + 1].addrMode = "NULL"

\* opcode 0x02 was fetched by the first call; twelve calls later the counter
\* stands at -12 and nothing else has been fetched
CyclesNegative ==
    /\ clocks = MaxStepOps
    /\ fetches = 1
    /\ cpu.opcode = 2
    /\ cpu.cycles = 0 - MaxStepOps
    /\ cpu.PC = ProgramAt + 1
    /\ ~threw

---------------------------------------------------------------------------
(* Errors raised while an instruction executes (under SpecStep)            *)

\* the first instruction was BRK: PC + 2 and the flags (B and I set) are on
\* the stack, and the program counter holds the word at 0xFFFE
BrkServiced ==
    /\ ~threw
    /\ cpu.PC = WordAt(65534)
    /\ cpu.SP = And(call.entry.SP - 3, 255)
    /\ RamAt(256 + call.entry.SP) = And(Shr(ProgramAt + 2, 8), 255)
    /\ RamAt(256 + And(call.entry.SP - 1, 255)) = And(ProgramAt + 2, 255)
    /\ RamAt(256 + And(call.entry.SP - 2, 255)) = 32 + 16 + 4
    /\ getBit(cpu.PS, 2) = 1

\* C33: executing an instruction never raises an error, for every opcode
\* value (the handlers BIT and ROR included), and BRK is serviced as a
\* software interrupt after which execution continues.
C33_NeverRaises ==
    /\ ~threw
    /\ (clocks = 1 /\ cpu.opcode = 0) => BrkServiced

\* what does hold: only the handlers BIT and ROR raise, and BRK is serviced
\* and followed by the fetch of the handler's first opcode
OnlyBitAndRorRaise ==
    /\ threw => operations[cpu.opcode + 1].name \in {"BIT", "ROR"}
    /\ (clocks = 1 /\ cpu.opcode = 0) => BrkServiced
    /\ (clocks = 8 /\ call.entry.opcode = 0 /\ fetches = 2 /\ call.fetch) =>
           (~threw /\ cpu.opcode = 64 /\ call.entry.PC = WordAt(65534))

\* BIT $10 (opcode 0x24) was fetched and its handler raised: the call ended
\* with the three base cycles unspent and the flags untouched
BitRaises ==
    /\ threw
    /\ clocks = 1
    /\ cpu.opcode = 36
    /\ cpu.cycles = 3
    /\ cpu.PS = 32
    /\ cpu.PC = ProgramAt + 2

---------------------------------------------------------------------------
(* Shifts and rotates, on the accumulator and on a zero-page byte          *)

MaxShiftOps == 1

\* ASL, LSR, ROL, ROR: accumulator mode, and zero page
ShiftAccOpcodes == { 10, 74, 42, 106 }
ShiftMemOpcodes == { 6, 70, 38, 102 }

ShiftAccs  == { 129, 64, 1 }
ShiftBytes == { 5, 192 }

\* the zero-page byte the memory forms work on
ShiftAt == 2 * 8

\* the program at ProgramAt, and the byte v both at ShiftAt and at address 0,
\* where absAddress points after a reset
InitShift ==
    \E opcode \in ShiftAccOpcodes \cup ShiftMemOpcodes,
       acc \in ShiftAccs, v \in ShiftBytes, c \in {0, 1} :
        Starts(loadChunkToRam(
                 loadChunkToRam(Programmed(ProgramAt, acc, 1, 2, 32 + c, << opcode, ShiftAt >>),
                                ShiftAt, << v >>),
                 0, << v >>), "load")

NextShift == ops < MaxShiftOps /\ CpuClockCall

SpecShift == InitShift /\ [][NextShift]_vars

\* the 8-bit result of the shift or rotate of x with carry c
Shifted(name, x, c) ==
    CASE name = "ASL" -> And(Shl(x, 1), 255)
      [] name = "LSR" -> Shr(x, 1)
      [] name = "ROL" -> And(Or(Shl(x, 1), c), 255)
      [] name = "ROR" -> Or(Shl(c, 7), Shr(x, 1))

\* the instruction about to be fetched
OpcodeAhead == RamAt(cpu.PC)

ShiftOnAccumulator ==
    /\ ~threw'
    /\ cpu'.ACC = Shifted(operations[OpcodeAhead + 1].name, cpu.ACC, Flag(0))
    /\ bus'.cpuRAM = bus.cpuRAM
    /\ ppu' = ppu /\ rom' = rom

ShiftOnMemory ==
    /\ ~threw'
    /\ MemGet(bus'.cpuRAM, ShiftAt) =
           Shifted(operations[OpcodeAhead + 1].name, RamAt(ShiftAt), Flag(0))
    /\ cpu'.ACC = cpu.ACC

C34_Step ==
    call'.op = "cpu.clock" =>
        /\ OpcodeAhead \in ShiftAccOpcodes => ShiftOnAccumulator
        /\ OpcodeAhead \in ShiftMemOpcodes => ShiftOnMemory

\* C34: ASL, LSR, ROL and ROR in accumulator mode (0x0A, 0x4A, 0x2A, 0x6A)
\* take A as the operand, write the 8-bit result to A and perform no bus
\* write; in memory modes the result is written to the effective address and
\* A is unchanged.
C34_Shifts == [][C34_Step]_vars

\* what does hold: the memory forms of ASL, LSR and ROL
C34_MemoryStep ==
    (call'.op = "cpu.clock" /\ OpcodeAhead \in {6, 70, 38}) => ShiftOnMemory

MemoryShifts == [][C34_MemoryStep]_vars

\* ASL A (0x0A) with A = 0x81 and the byte 5 at address 0: A is still 0x81,
\* the byte at address 0 has become 10, and the carry is clear
AslShiftedMemory ==
    /\ call.op = "cpu.clock"
    /\ cpu.opcode = 10
    /\ call.entry.ACC = 129
    /\ cpu.ACC = 129
    /\ cpu.fetched = 5
    /\ RamAt(0) = 10
    /\ RamAt(ShiftAt) = 5
    /\ Flag(0) = 0
    /\ ~threw

---------------------------------------------------------------------------
(* The stack instructions                                                  *)

\* cpu.clock() calls followed: BRK's seven and the fetch of the handler
MaxStackOps == 8

\* PHA PLA; PHP PLP; JSR $0203 and the RTS there; BRK (the handler is an RTI)
StackPrograms ==
    { << 72, 104 >>, << 8, 40 >>, << 32, 3, 2, 96 >>, << 0 >> }

StackPointers == { 253, 255, 0, 1, 207 }
StackAccs     == { 7, 128 }
StackFlags    == { 32, 227 }

InitStack ==
    \E prog \in StackPrograms, sp \in StackPointers, acc \in StackAccs, ps \in StackFlags :
        Starts([Programmed(ProgramAt, acc, 1, 2, ps, prog) EXCEPT !.cpu.SP = sp], "load")

NextStack == ops < MaxStackOps /\ CpuClockCall

SpecStack == InitStack /\ [][NextStack]_vars

\* bytes an instruction pushes (negative) or pulls (positive)
StackMoves(name) ==
    CASE name \in {"PHA", "PHP"} -> 0 - 1
      [] name \in {"PLA", "PLP"} -> 1
      [] name = "JSR" -> 0 - 2
      [] name = "RTS" -> 2
      [] name = "RTI" -> 3
      [] name = "BRK" -> 0 - 3
      [] OTHER -> 0

\* the call about to end has fetched and executed an instruction named name
Executes(name) ==
    /\ call'.op = "cpu.clock" /\ call'.fetch /\ ~threw'
    /\ operations[cpu'.opcode + 1].name = name

\* the slot a push at stack pointer sp writes, and a pull at sp reads
PushSlot(sp) == 256 + sp
PullSlot(sp) == 256 + And(sp + 1, 255)

\* the processor status apart from the B flag and the unused bit
FlagsOf(ps) == And(ps, 207)

C35_Step ==
    /\ \A name \in {"PHA", "PHP", "PLA", "PLP", "JSR", "RTS", "RTI", "BRK"} :
           Executes(name) => cpu'.SP = And(cpu.SP + StackMoves(name), 255)
    /\ Executes("PHA") => MemGet(bus'.cpuRAM, PushSlot(cpu.SP)) = cpu.ACC
    /\ Executes("PHP") => FlagsOf(MemGet(bus'.cpuRAM, PushSlot(cpu.SP))) = FlagsOf(cpu.PS)
    /\ Executes("PLA") => cpu'.ACC = RamAt(PullSlot(cpu.SP))
    /\ Executes("PLP") => FlagsOf(cpu'.PS) = FlagsOf(RamAt(PullSlot(cpu.SP)))

\* C35: every push stores its byte at 0x0100 | SP and then decrements SP by
\* 1 (mod 256), every pull increments SP by 1 and then reads 0x0100 | SP, for
\* PHA, PHP, PLA, PLP, JSR, RTS, RTI and interrupt entry; so PHA then PLA,
\* and PHP then PLP, restore SP and return the byte pushed, and no stack
\* instruction alters SP otherwise.
C35_Stack == [][C35_Step]_vars

\* what does hold: the bytes pushed and pulled, and the stack pointer after
\* every stack instruction but PHP and PLP
C35_ButFlagsStep ==
    /\ \A name \in {"PHA", "PLA", "JSR", "RTS", "RTI", "BRK"} :
           Executes(name) => cpu'.SP = And(cpu.SP + StackMoves(name), 255)
    /\ Executes("PHA") => MemGet(bus'.cpuRAM, PushSlot(cpu.SP)) = cpu.ACC
    /\ Executes("PHP") => FlagsOf(MemGet(bus'.cpuRAM, PushSlot(cpu.SP))) = FlagsOf(cpu.PS)
    /\ Executes("PLA") => cpu'.ACC = RamAt(PullSlot(cpu.SP))
    /\ Executes("PLP") => FlagsOf(cpu'.PS) = FlagsOf(RamAt(PullSlot(cpu.SP)))

StackButFlags == [][C35_ButFlagsStep]_vars

\* PHP executed with SP = 0xCF: the flags went to 0x01CF and SP is 0xFE
PhpMovesStack ==
    /\ call.op = "cpu.clock" /\ call.fetch
    /\ cpu.opcode = 8
    /\ call.entry.SP = 207
    /\ RamAt(256 + 207) = cpu.PS
    /\ cpu.SP = 254
    /\ ~threw

\* PHA and PLA executed from SP = 0: the byte went to 0x0100, came back from
\* there, and SP is 0 again
PhaPlaRoundTrip ==
    /\ call.op = "cpu.clock" /\ call.fetch
    /\ fetches = 2
    /\ cpu.opcode = 104
    /\ call.entry.opcode = 72
    /\ call.entry.SP = 255
    /\ cpu.SP = 0
    /\ RamAt(256) = 128
    /\ cpu.ACC = 128

---------------------------------------------------------------------------
(* The scroll counters of v: one PPU tick at a chosen dot                  *)

MaxScrollOps == 1

\* coarse X, and the other fields of v (coarse Y, the nametable bits, fine Y)
ScrollXs     == { 0, 5, 30, 31 }
ScrollOthers == { 0, 1024, 2048, 7 * 32, 3 * 4096, 31 * 32 + 3072 + 7 * 4096 }

\* PPUMASK: background, sprites, both
ScrollMasks == { 8, 16, 24 }

\* dots whose tick is phase 7 of a fetch cycle and nothing else
ScrollDots == { 8, 16, 328 }

InitScroll ==
    \E x \in ScrollXs, o \in ScrollOthers, mask \in ScrollMasks, dot \in ScrollDots :
        Starts([BusReset(Connected(CartA))
                    EXCEPT !.ppu.vReg = o + x, !.ppu.PPUMASK = mask,
                           !.ppu.scanline = 0, !.ppu.cycle = dot], "load")

\* ppu.clock()
PpuTick ==
    /\ Becomes([Machine EXCEPT !.ppu = PPUclock(ppu, rom)])
    /\ call' = [NoCall EXCEPT !.op = "ppu.clock", !.address = ppu.cycle, !.data = ppu.vReg]
    /\ ret' = 0
    /\ ops' = ops + 1
    /\ UNCHANGED <<ev, edges, nmis, latched, clocks, fetches>>

NextScroll == ops < MaxScrollOps /\ PpuTick

SpecScroll == InitScroll /\ [][NextScroll]_vars

\* v after the coarse-X increment
CoarseXNext(v) ==
    IF And(v, 31) = 31 THEN Xor(v - 31, 1024) ELSE v + 1

\* C36: with rendering enabled, the coarse-X increment at phase 7 of the
\* fetch cycle takes coarse_x = 31 to 0 with nametable-X toggled and any
\* other coarse_x to coarse_x + 1; coarse_y, nametable-Y, fine_y and bit 15
\* of v are left as they were.
C36_CoarseX ==
    (call.op = "ppu.clock" /\ call.address \in ScrollDots) =>
        ppu.vReg = CoarseXNext(call.data)

\* v = 5 (coarse_x 5) at dot 8: v is still 5 after the tick
CoarseXStuck ==
    /\ call.op = "ppu.clock" /\ call.address = 8 /\ call.data = 5
    /\ ppu.cycle = 9
    /\ ppu.vReg = 5

\* v = 0x00FF (coarse_x 31, coarse_y 7) at dot 8: coarse_x is still 31,
\* coarse_y is 0, and bits 10 to 15 are all set
CoarseXWrapSpills ==
    /\ call.op = "ppu.clock" /\ call.address = 8 /\ call.data = 7 * 32 + 31
    /\ ppu.vReg = 64512 + 31

---------------------------------------------------------------------------
(* PPU ticks with rendering disabled                                       *)

MaxIdleOps == 4

\* PPUMASK values whose show-background and show-sprites bits are clear
IdleMasks == { 0, 6, 225 }

\* v: coarse_y 31; every bit; coarse_x 31 with both nametable bits
IdleVs == { 31 * 32, 32767, 3072 + 31 }

\* dots and scanlines just before v would move with rendering enabled: the
\* coarse-X dots, dot 256, dot 257, dots 280-304 of the pre-render line
IdleDots  == { 7, 255, 279, 303, 327 }
IdleLines == { 0 - 1, 0, 239, 240 }

InitIdle ==
    \E v \in IdleVs, mask \in IdleMasks, dot \in IdleDots, line \in IdleLines :
        Starts([BusReset(Connected(CartA))
                    EXCEPT !.ppu.vReg = v, !.ppu.PPUMASK = mask,
                           !.ppu.scanline = line, !.ppu.cycle = dot], "load")

NextIdle == ops < MaxIdleOps /\ PpuTick

SpecIdle == InitIdle /\ [][NextIdle]_vars

C37_Step ==
    (call'.op = "ppu.clock" /\ getBit(ppu.PPUMASK, 3) = 0 /\ getBit(ppu.PPUMASK, 4) = 0) =>
        /\ ppu'.vReg = ppu.vReg
        /\ ppu'.PPUMASK = ppu.PPUMASK

\* C37: while PPUMASK.show_background and PPUMASK.show_sprites are both 0,
\* ppu.clock() never changes v, at any scanline and dot: no coarse-X or
\* coarse-Y increment and no transfer from t to v takes place.
C37_IdleV == [][C37_Step]_vars

\* the ticks at dots 255 to 258 of the pre-render line have passed (the
\* coarse-X and coarse-Y increments and the horizontal transfer) and v still
\* holds coarse_y 31, all of which t, zero, would have cleared
C37_Witness ==
    /\ ops = MaxIdleOps
    /\ call.op = "ppu.clock" /\ call.address = 258
    /\ ppu.scanline = 0 - 1 /\ ppu.cycle = 259
    /\ ppu.PPUMASK = 6
    /\ ppu.tReg = 0
    /\ ppu.vReg = 31 * 32

---------------------------------------------------------------------------
(* The dot and scanline counters and the frame flag, around the ends of     *)
(* the scanlines and of the frame                                           *)

\* bus.clock() calls, and lone ppu.clock() calls, followed
MaxFrameTicks == 3
MaxFrameOps == 2

FrameLines == { 0 - 1, 0, 239, 240, 259, 260 }
FrameDots  == { 0, 1, 339, 340 }

\* the frame flag may stand: the single-cycle button clocks the bus without
\* ever clearing it
InitFrame ==
    \E line \in FrameLines, dot \in FrameDots, done \in BOOLEAN :
        Starts([BusReset(Connected(CartA))
                    EXCEPT !.ppu.scanline = line, !.ppu.cycle = dot,
                           !.ppu.frameComplete = done], "load")

FrameClock == ~threw /\ bus.systemClock < MaxFrameTicks /\ ClockCall

FramePpuTick == ops < MaxFrameOps /\ PpuTick

NextFrame == FrameClock \/ FramePpuTick \/ FrameEnd

SpecFrame == InitFrame /\ [][NextFrame]_vars

C38_Step ==
    /\ ppu'.scanline \in (0 - 1) .. 260
    /\ ppu'.cycle \in 0 .. 340
    /\ (~ppu.frameComplete /\ ppu'.frameComplete) =>
           /\ call'.op \in {"clock", "ppu.clock"}
           /\ ppu.scanline = 260 /\ ppu'.scanline = 0 - 1
    /\ (ppu.frameComplete /\ call'.op \in {"clock", "ppu.clock"}) => ppu'.frameComplete

\* C38: after every PPU tick the scanline is in [-1, 260] and the dot in
\* [0, 340]; frame_complete goes from false to true only in the tick in
\* which the scanline wraps from 260 to -1, and neither PPU.clock() nor
\* Bus.clock() ever clears it (only the host does).
C38_Counters == [][C38_Step]_vars

\* the tick at dot 340 of scanline 260 raised the flag, and two more
\* bus.clock() calls have left it standing
C38_Witness ==
    /\ call.op = "clock"
    /\ bus.systemClock = MaxFrameTicks
    /\ edges = 1
    /\ ppu.frameComplete
    /\ ppu.scanline = 0 - 1
    /\ ppu.cycle = 2

---------------------------------------------------------------------------
(* The loopy registers v and t under register traffic                      *)

\* register writes and ticks explored first, then PPUDATA reads in a row
MaxLoopyWrites == 3
MaxLoopyReads == 515

\* <<register, byte>>: PPUCTRL with the +32 increment, PPUSCROLL, PPUADDR,
\* PPUDATA
LoopyWrites == { <<0, 4>>, <<5, 255>>, <<6, 63>>, <<6, 255>>, <<7, 9>> }

\* bus.write(0x2000 + r, d)
LoopyWrite(r, d) ==
    /\ Becomes(BusWrite(Machine, 8192 + r, d))
    /\ call' = [NoCall EXCEPT !.op = "write", !.address = 8192 + r, !.data = d]
    /\ ret' = 0
    /\ ops' = ops + 1
    /\ UNCHANGED <<ev, edges, nmis, latched, clocks, fetches>>

\* bus.read(0x2007)
LoopyRead ==
    /\ ops >= MaxLoopyWrites
    /\ ops < MaxLoopyWrites + MaxLoopyReads
    /\ Becomes(BusRead(Machine, 8199).m)
    /\ call' = [NoCall EXCEPT !.op = "read", !.address = 8199]
    /\ ret' = BusRead(Machine, 8199).data
    /\ ops' = ops + 1
    /\ UNCHANGED <<ev, edges, nmis, latched, clocks, fetches>>

LoopyTraffic ==
    /\ ops < MaxLoopyWrites
    /\ \/ \E wr \in LoopyWrites : LoopyWrite(wr[1], wr[2])
       \/ PpuTick

NextLoopy == LoopyTraffic \/ LoopyRead

SpecLoopy == InitLoad /\ [][NextLoopy]_vars

\* C39: v and t always hold 15-bit values (bit 15 is 0) after any sequence
\* of PPUCTRL/PPUSCROLL/PPUADDR writes, PPUDATA reads and writes (with their
\* +1/+32 increment of v) and PPU ticks.
C39_FifteenBits ==
    /\ ppu.vReg < 32768
    /\ ppu.tReg < 32768

\* what does hold: t stays within 15 bits, and so does v until PPUDATA
\* accesses have carried it past 0x7FFF
LoopyButCarry ==
    /\ ppu.tReg < 32768
    /\ ppu.vReg >= 32768 => (call.op = "read" /\ ops > MaxLoopyWrites + 500)

\* PPUCTRL = 4, PPUADDR = 0x3F, 0xFF, then 513 PPUDATA reads: v is 0x801F
VCarriesIntoBit15 ==
    /\ ops = MaxLoopyWrites + 513
    /\ call.op = "read"
    /\ ppu.PPUCTRL = 4
    /\ ppu.tReg = 16383
    /\ ppu.vReg = 32768 + 31

---------------------------------------------------------------------------
(* CPU writes into the cartridge's address range                           *)

MaxPromOps == 3

\* addresses written: RAM, a PPU register, and PRG-ROM addresses in both
\* halves (0x8000, 0x8010, 0xC010, 0xFFFC, 0xFFFF)
PromWriteAddrs == { 0, 8198, 32768, 32784, 49168, 65532, 65535 }

\* PRG-ROM addresses read
PromReadAddrs == { 32768, 32784, 49168, 65532, 65535 }

NextProm ==
    \/ ops < MaxPromOps /\ \E a \in PromWriteAddrs, v \in Bytes : CpuWrite(a, v)
    \/ ops < MaxPromOps /\ \E a \in PromReadAddrs : CpuRead(a)

SpecProm == InitPort /\ [][NextProm]_vars

\* what Bus.read(a) returns for a PRG-ROM address a on cartridge r
PromRead(r, a) == IF ROMcpuRead(r, a) # Null THEN ROMcpuRead(r, a) ELSE 0

C40_Step ==
    call'.op = "write" =>
        /\ rom'.PRGROMData = rom.PRGROMData
        /\ \A a \in PromReadAddrs : PromRead(rom', a) = PromRead(rom, a)

\* C40: PRG-ROM is read-only from the CPU side: no Bus.write changes the
\* PRG-ROM array, so Bus.read(a) for a in [0x8000, 0xFFFF] returns the same
\* value before and after any write to any address.
C40_PrgReadOnly == [][C40_Step]_vars

\* what does hold: a write below 0x8000, or to 0x8000 itself (offset 0,
\* which the cartridge declines), leaves the cartridge as it was
C40_DeclinedStep ==
    (call'.op = "write" /\ call'.address <= 32768) => rom' = rom

PromDeclinedWrites == [][C40_DeclinedStep]_vars

\* 0xAA was written to 0x8010 and a read of 0x8010 has returned it
PrgOverwritten ==
    /\ ops = 2
    /\ call.op = "read" /\ call.address = 32784
    /\ ret = 170
    /\ PrgAt(16) = 170

=============================================================================
